---- MODULE Spec2Model ----
(***************************************************************************)
(* A model of the `imaginary` complex number library: the generic          *)
(* Complex<T> operators, the Display implementation, the float             *)
(* specialisation (mixed scalar/complex operators, recip, abs, sign,       *)
(* angle, cis, ln, sqrt, cbrt, the trigonometric and hyperbolic methods),  *)
(* the c32/c64 free functions (ln, sqrt, quad, cubic) and callers that use *)
(* the operations concurrently.                                            *)
(*                                                                         *)
(* The scalar type is a scaled-down IEEE 754 binary format: P significand  *)
(* bits, gradual underflow, signed zeros, infinities, one NaN, and         *)
(* round-to-nearest-even for +, -, *, / and sqrt.  A finite scalar is      *)
(* s * m / 2^F with s its sign and m a natural number of at most P         *)
(* significant bits.  f32 and f64 are the same format with P = 24 and      *)
(* P = 53.                                                                 *)
(*                                                                         *)
(* The library functions hypot, cbrt, cos, sin, tan, atan2, ln, cosh, sinh *)
(* and tanh of a scalar are not required to be correctly rounded (Rust     *)
(* documents their precision as unspecified): they return a faithful       *)
(* rounding of the exact value, to nearest, downward or upward, as chosen  *)
(* by the rounding mode `lm` that the caller's environment fixes for a     *)
(* call.                                                                   *)
(***************************************************************************)
EXTENDS Integers, Sequences, FiniteSets, TLC

\* Significand bits of the scalar format (f32: 24, f64: 53).
P == 5
\* Fraction bits of the fixed unit: a finite scalar is a multiple of 2^-F.
F == 6
\* Binades above the lowest: the largest finite scalar is (2^P - 1) * 2^(K - F).
K == 7

One == 2^F
MaxMag == (2^P - 1) * 2^K
MinNormal == 2^(P - 1)

----------------------------------------------------------------------------
(* Scalars *)

fin(s, m) == [k |-> "fin", s |-> s, m |-> m]
inf(s) == [k |-> "inf", s |-> s, m |-> 0]
NAN == [k |-> "nan", s |-> 1, m |-> 0]
INFINITY == inf(1)
NEG_INFINITY == inf(-1)

is_nan(x) == x.k = "nan"
is_finite(x) == x.k = "fin"
is_zero(x) == x.k = "fin" /\ x.m = 0

\* The position of a non-NaN scalar in the order of the extended reals.
ord(x) == IF x.k = "inf" THEN x.s * (MaxMag + 1) ELSE x.s * x.m

\* ==, !=, <, >= of the scalar type: false (true for !=) when an operand is NaN,
\* and -0.0 == 0.0.
f_eq(x, y) == ~is_nan(x) /\ ~is_nan(y) /\ ord(x) = ord(y)
f_ne(x, y) == ~f_eq(x, y)
f_lt(x, y) == ~is_nan(x) /\ ~is_nan(y) /\ ord(x) < ord(y)
f_ge(x, y) == ~is_nan(x) /\ ~is_nan(y) /\ ord(x) >= ord(y)

RECURSIVE binade(_, _, _)
\* The least e >= 0 with num / den < 2^(P + e).
binade(num, den, e) ==
    IF num < den * 2^(P + e) THEN e ELSE binade(num, den, e + 1)

\* The scalar nearest to s * num / (den * 2^F) in rounding mode rm: "ne" to
\* nearest, ties to even; "dn" toward -infinity; "up" toward +infinity.
round(s, num, den, rm) ==
    IF num = 0 THEN fin(s, 0)
    ELSE LET e == binade(num, den, 0)
             g == 2^e
             lo == (num \div (den * g)) * g
             rem == num - lo * den
             up == CASE rm = "ne" -> \/ 2 * rem > den * g
                                     \/ 2 * rem = den * g /\ (lo \div g) % 2 = 1
                     [] rm = "dn" -> s = -1 /\ rem > 0
                     [] OTHER -> s = 1 /\ rem > 0
             m == IF up THEN lo + g ELSE lo
             toward_zero == (rm = "dn" /\ s = 1) \/ (rm = "up" /\ s = -1)
         IN  IF m <= MaxMag THEN fin(s, m)
             ELSE IF toward_zero THEN fin(s, MaxMag) ELSE inf(s)

\* A literal n / d of the source, as the compiler rounds it.
lit(n, d) == round(IF n < 0 THEN -1 ELSE 1, (IF n < 0 THEN -n ELSE n) * One, d, "ne")

f_neg(x) == IF is_nan(x) THEN NAN ELSE [x EXCEPT !.s = -x.s]

f_abs(x) == IF is_nan(x) THEN NAN ELSE [x EXCEPT !.s = 1]

copysign(x, y) == IF is_nan(x) THEN NAN ELSE [x EXCEPT !.s = y.s]

f_add(x, y) ==
    IF is_nan(x) \/ is_nan(y) THEN NAN
    ELSE IF x.k = "inf" THEN (IF y.k = "inf" /\ y.s # x.s THEN NAN ELSE x)
    ELSE IF y.k = "inf" THEN y
    ELSE LET v == x.s * x.m + y.s * y.m
         IN  IF v = 0 THEN fin(IF x.s = -1 /\ y.s = -1 THEN -1 ELSE 1, 0)
             ELSE IF v < 0 THEN round(-1, -v, 1, "ne")
             ELSE round(1, v, 1, "ne")

f_sub(x, y) == f_add(x, f_neg(y))

f_mul(x, y) ==
    IF is_nan(x) \/ is_nan(y) THEN NAN
    ELSE IF x.k = "inf" \/ y.k = "inf"
         THEN (IF is_zero(x) \/ is_zero(y) THEN NAN ELSE inf(x.s * y.s))
    ELSE round(x.s * y.s, x.m * y.m, One, "ne")

f_div(x, y) ==
    IF is_nan(x) \/ is_nan(y) THEN NAN
    ELSE IF x.k = "inf" THEN (IF y.k = "inf" THEN NAN ELSE inf(x.s * y.s))
    ELSE IF y.k = "inf" THEN fin(x.s * y.s, 0)
    ELSE IF y.m = 0 THEN (IF x.m = 0 THEN NAN ELSE inf(x.s * y.s))
    ELSE round(x.s * y.s, x.m * One, y.m, "ne")

RECURSIVE isqrt(_, _, _)
\* The integer square root of n, given lo^2 <= n < hi^2.
isqrt(n, lo, hi) ==
    IF hi - lo <= 1 THEN lo
    ELSE LET mid == (lo + hi) \div 2
         IN  IF mid * mid <= n THEN isqrt(n, mid, hi) ELSE isqrt(n, lo, mid)

RECURSIVE icbrt(_, _, _)
\* The integer cube root of n, given lo^3 <= n < hi^3.
icbrt(n, lo, hi) ==
    IF hi - lo <= 1 THEN lo
    ELSE LET mid == (lo + hi) \div 2
         IN  IF mid * mid * mid <= n THEN icbrt(n, mid, hi) ELSE icbrt(n, lo, mid)

\* The scalar that s * sqrt(n) / 2^F rounds to.  No scalar and no midpoint of
\* two scalars lies strictly between r and r + 1/2 or between r + 1/2 and r + 1.
round_sqrt(s, n, rm) ==
    LET r == isqrt(n, 0, 2^15)
    IN  IF r * r = n THEN round(s, r, 1, rm)
        ELSE IF n <= r * r + r THEN round(s, 4 * r + 1, 4, rm)
        ELSE round(s, 4 * r + 3, 4, rm)

\* The scalar that s * cbrt(n) / 2^F rounds to.
round_cbrt(s, n, rm) ==
    LET r == icbrt(n, 0, 2^10)
    IN  IF r * r * r = n THEN round(s, r, 1, rm)
        ELSE IF 4 * (n - r * r * r) <= 6 * r * r + 3 * r THEN round(s, 4 * r + 1, 4, rm)
        ELSE round(s, 4 * r + 3, 4, rm)

\* f32::sqrt / f64::sqrt: correctly rounded.
f_sqrt(x) ==
    IF is_nan(x) THEN NAN
    ELSE IF is_zero(x) THEN x
    ELSE IF x.s = -1 THEN NAN
    ELSE IF x.k = "inf" THEN x
    ELSE round_sqrt(1, x.m * One, "ne")

\* f32::hypot / f64::hypot.
hypot(x, y, rm) ==
    IF x.k = "inf" \/ y.k = "inf" THEN INFINITY
    ELSE IF is_nan(x) \/ is_nan(y) THEN NAN
    ELSE round_sqrt(1, x.m * x.m + y.m * y.m, rm)

\* f32::cbrt / f64::cbrt.
f_cbrt(x, rm) ==
    IF is_nan(x) THEN NAN
    ELSE IF x.k = "inf" \/ x.m = 0 THEN x
    ELSE round_cbrt(x.s, x.m * One * One, rm)

----------------------------------------------------------------------------
(* The library functions of a scalar, evaluated in fixed point with FX        *)
(* fraction bits and then rounded to the scalar format.                       *)

FX == 2^13
\* pi * 2^19, to the nearest integer.
PI_HI == 1647099
HALF_PI_HI == PI_HI \div 2
PI_FX == PI_HI \div 64
HALF_PI_FX == PI_HI \div 128
QUARTER_PI_FX == PI_HI \div 256

\* sin r and cos r for 0 <= r <= pi/4, by their Taylor series in Horner form.
sin_fx(r) ==
    LET r2 == (r * r) \div FX
        t4 == FX - (r2 \div 72)
        t3 == FX - (((r2 * t4) \div FX) \div 42)
        t2 == FX - (((r2 * t3) \div FX) \div 20)
        t1 == FX - (((r2 * t2) \div FX) \div 6)
    IN  (r * t1) \div FX

cos_fx(r) ==
    LET r2 == (r * r) \div FX
        t4 == FX - (r2 \div 56)
        t3 == FX - (((r2 * t4) \div FX) \div 30)
        t2 == FX - (((r2 * t3) \div FX) \div 12)
    IN  FX - (((r2 * t2) \div FX) \div 2)

\* <<quadrant, sin r, cos r>> for |x| = quadrant * pi/2 + r, 0 <= r < pi/2.
reduce(m) ==
    LET x_hi == m * (2^19 \div One)
        r == (x_hi % HALF_PI_HI) \div 64
        c == HALF_PI_FX - r
    IN  IF r <= QUARTER_PI_FX
        THEN << (x_hi \div HALF_PI_HI) % 4, sin_fx(r), cos_fx(r) >>
        ELSE << (x_hi \div HALF_PI_HI) % 4, cos_fx(c), sin_fx(c) >>

\* f32::cos / f64::cos.
f_cos(x, rm) ==
    IF ~is_finite(x) THEN NAN
    ELSE LET t == reduce(x.m)
         IN  CASE t[1] = 0 -> round(1, t[3], FX \div One, rm)
               [] t[1] = 1 -> round(-1, t[2], FX \div One, rm)
               [] t[1] = 2 -> round(-1, t[3], FX \div One, rm)
               [] OTHER -> round(1, t[2], FX \div One, rm)

\* f32::sin / f64::sin.
f_sin(x, rm) ==
    IF ~is_finite(x) THEN NAN
    ELSE IF x.m = 0 THEN x
    ELSE LET t == reduce(x.m)
         IN  CASE t[1] = 0 -> round(x.s, t[2], FX \div One, rm)
               [] t[1] = 1 -> round(x.s, t[3], FX \div One, rm)
               [] t[1] = 2 -> round(-x.s, t[2], FX \div One, rm)
               [] OTHER -> round(-x.s, t[3], FX \div One, rm)

\* atan u for 0 <= u <= tan(pi/8), by its Taylor series in Horner form.
atan_small(u) ==
    LET u2 == (u * u) \div FX
        a4 == (FX \div 7) - (u2 \div 9)
        a3 == (FX \div 5) - ((u2 * a4) \div FX)
        a2 == (FX \div 3) - ((u2 * a3) \div FX)
        a1 == FX - ((u2 * a2) \div FX)
    IN  (u * a1) \div FX

\* atan t for 0 <= t <= 1; tan(pi/8) = sqrt(2) - 1.
atan_fx(t) ==
    IF t > isqrt(2 * FX * FX, 0, 2^15) - FX
    THEN QUARTER_PI_FX - atan_small(((FX - t) * FX) \div (FX + t))
    ELSE atan_small(t)

\* The angle of (x, y) in [0, pi], for y >= 0.
angle_fx(y, x) ==
    IF x.k = "inf" /\ y.k = "inf"
    THEN (IF x.s = 1 THEN QUARTER_PI_FX ELSE PI_FX - QUARTER_PI_FX)
    ELSE IF x.k = "inf" THEN (IF x.s = 1 THEN 0 ELSE PI_FX)
    ELSE IF y.k = "inf" THEN HALF_PI_FX
    ELSE IF y.m = 0 THEN (IF x.s = 1 THEN 0 ELSE PI_FX)
    ELSE IF x.m = 0 THEN HALF_PI_FX
    ELSE LET base == IF y.m <= x.m THEN atan_fx((y.m * FX) \div x.m)
                     ELSE HALF_PI_FX - atan_fx((x.m * FX) \div y.m)
         IN  IF x.s = 1 THEN base ELSE PI_FX - base

\* f32::atan2 / f64::atan2: y.atan2(x).
atan2(y, x, rm) ==
    IF is_nan(x) \/ is_nan(y) THEN NAN
    ELSE round(y.s, angle_fx(y, x), FX \div One, rm)

\* std::f32::consts::PI / std::f64::consts::PI.
PI == round(1, PI_FX, FX \div One, "ne")

\* ln 2 with 20 fraction bits.
LN2_HI == 726817

RECURSIVE ilog2(_, _)
\* The greatest e >= e0 with 2^e <= m, for m >= 2^e0.
ilog2(m, e0) == IF m < 2^(e0 + 1) THEN e0 ELSE ilog2(m, e0 + 1)

\* ln(t) with FX fraction bits for t = m / 2^e in [1, 2): 2 * atanh(s) with
\* s = (t - 1) / (t + 1) < 1/3, by its series up to s^9.
ln_mantissa_fx(m, e) ==
    LET s == ((m - 2^e) * FX) \div (m + 2^e)
        s2 == (s * s) \div FX
        p9 == FX \div 9
        p7 == FX \div 7 + (s2 * p9) \div FX
        p5 == FX \div 5 + (s2 * p7) \div FX
        p3 == FX \div 3 + (s2 * p5) \div FX
        p1 == FX + (s2 * p3) \div FX
    IN  (2 * s * p1) \div FX

\* ln(m / 2^F) with FX fraction bits, for a natural m >= 1.
ln_fx(m) ==
    LET e == ilog2(m, 0)
    IN  ((e - F) * LN2_HI) \div (2^20 \div FX) + ln_mantissa_fx(m, e)

\* f32::ln / f64::ln.
f_ln(x, rm) ==
    IF is_nan(x) THEN NAN
    ELSE IF is_zero(x) THEN NEG_INFINITY
    ELSE IF x.s = -1 THEN NAN
    ELSE IF x.k = "inf" THEN INFINITY
    ELSE LET v == ln_fx(x.m)
         IN  IF v < 0 THEN round(-1, -v, FX \div One, rm)
             ELSE round(1, v, FX \div One, rm)

\* f32::tan / f64::tan: sin over cos of the reduced argument.
f_tan(x, rm) ==
    IF ~is_finite(x) THEN NAN
    ELSE IF x.m = 0 THEN x
    ELSE LET t == reduce(x.m)
             den_s == IF t[2] = 0 THEN 1 ELSE t[2]
             den_c == IF t[3] = 0 THEN 1 ELSE t[3]
         IN  IF t[1] % 2 = 0 THEN round(x.s, t[2] * One, den_c, rm)
             ELSE round(-x.s, t[3] * One, den_s, rm)

\* The magnitudes from which cosh and sinh overflow and tanh is 1 to the last
\* place, in units of 2^-F.
HYP_MAX == 8 * One

\* e^(m / 2^F) with FX fraction bits for 0 <= m < HYP_MAX: 2^k * e^r with
\* 0 <= r < ln 2, e^r by its Taylor series in Horner form.
exp_fx(m) ==
    LET t_hi == m * (2^20 \div One)
        k == t_hi \div LN2_HI
        r == (t_hi % LN2_HI) \div (2^20 \div FX)
        t7 == FX + (r \div 7)
        t6 == FX + (((r * t7) \div FX) \div 6)
        t5 == FX + (((r * t6) \div FX) \div 5)
        t4 == FX + (((r * t5) \div FX) \div 4)
        t3 == FX + (((r * t4) \div FX) \div 3)
        t2 == FX + (((r * t3) \div FX) \div 2)
        t1 == FX + ((r * t2) \div FX)
    IN  t1 * 2^k

\* cosh(m / 2^F) with FX fraction bits.
cosh_fx(m) == (exp_fx(m) + (FX * FX) \div exp_fx(m)) \div 2

\* sinh(m / 2^F) with FX fraction bits: below 1 by its Taylor series, which
\* does not cancel.
sinh_fx(m) ==
    IF m < One
    THEN LET t == m * (FX \div One)
             t_sq == (t * t) \div FX
             s3 == FX + (t_sq \div 42)
             s2 == FX + (((t_sq * s3) \div FX) \div 20)
             s1 == FX + (((t_sq * s2) \div FX) \div 6)
         IN  (t * s1) \div FX
    ELSE (exp_fx(m) - (FX * FX) \div exp_fx(m)) \div 2

\* f32::cosh / f64::cosh.
f_cosh(x, rm) ==
    IF is_nan(x) THEN NAN
    ELSE IF x.k = "inf" THEN INFINITY
    ELSE IF x.m >= HYP_MAX THEN round(1, 2 * MaxMag, 1, rm)
    ELSE round(1, cosh_fx(x.m), FX \div One, rm)

\* f32::sinh / f64::sinh.
f_sinh(x, rm) ==
    IF is_nan(x) THEN NAN
    ELSE IF x.k = "inf" \/ x.m = 0 THEN x
    ELSE IF x.m >= HYP_MAX THEN round(x.s, 2 * MaxMag, 1, rm)
    ELSE round(x.s, sinh_fx(x.m), FX \div One, rm)

\* f32::tanh / f64::tanh.
f_tanh(x, rm) ==
    IF is_nan(x) THEN NAN
    ELSE IF x.k = "inf" THEN fin(x.s, One)
    ELSE IF x.m = 0 THEN x
    ELSE IF x.m >= HYP_MAX THEN round(x.s, FX - 1, FX \div One, rm)
    ELSE round(x.s, sinh_fx(x.m) * One, cosh_fx(x.m), rm)

\* f32::EPSILON / f64::EPSILON: the gap between 1.0 and the next scalar.
EPSILON == fin(1, 2^(F + 1 - P))

----------------------------------------------------------------------------
(* Complex<T> *)

new(real, imag) == [r |-> real, i |-> imag]

\* From<T> for Complex<T>: T::default() is +0.0.
from(value) == [r |-> value, i |-> fin(1, 0)]

\* From<(T, T)> for Complex<T> and From<Complex<T>> for (T, T).
from_pair(value) == [r |-> value[1], i |-> value[2]]
into(value) == << value.r, value.i >>

\* Faulty variants of the operators below, used to test that the properties
\* can tell them from the real ones.
conj_negates_r(self) == [r |-> f_neg(self.r), i |-> self.i]

mul_plus(self, rhs) ==
    [r |-> f_add(f_mul(self.r, rhs.r), f_mul(self.i, rhs.i)),
     i |-> f_add(f_mul(self.r, rhs.i), f_mul(self.i, rhs.r))]

div_swapped(self, rhs) ==
    LET denom == f_add(f_mul(rhs.r, rhs.r), f_mul(rhs.i, rhs.i))
    IN  [r |-> f_div(f_add(f_mul(self.r, rhs.r), f_mul(self.i, rhs.i)), denom),
         i |-> f_div(f_sub(f_mul(self.r, rhs.i), f_mul(self.i, rhs.r)), denom)]

div_checked(self, rhs) ==
    LET denom == f_add(f_mul(rhs.r, rhs.r), f_mul(rhs.i, rhs.i))
    IN  IF is_zero(denom) THEN [r |-> fin(1, 0), i |-> fin(1, 0)]
        ELSE [r |-> f_div(f_add(f_mul(self.r, rhs.r), f_mul(self.i, rhs.i)), denom),
              i |-> f_div(f_sub(f_mul(self.i, rhs.r), f_mul(self.r, rhs.i)), denom)]

add_assign_r_twice(self, rhs) ==
    LET self1 == [self EXCEPT !.r = f_add(self.r, rhs.r)]
    IN  [self1 EXCEPT !.i = f_add(self1.i, rhs.r)]

add_subtracts_i(self, rhs) == [r |-> f_add(self.r, rhs.r), i |-> f_sub(self.i, rhs.i)]

sub_t_c_keeps_i(self, rhs) == [r |-> f_sub(self, rhs.r), i |-> rhs.i]

mul_c_t_keeps_i(self, rhs) == [r |-> f_mul(self.r, rhs), i |-> self.i]

mul_drops_ii(self, rhs) ==
    [r |-> f_mul(self.r, rhs.r),
     i |-> f_add(f_mul(self.r, rhs.i), f_mul(self.i, rhs.r))]

div_t_c_no_conj(self, rhs) ==
    LET denom == f_add(f_mul(rhs.r, rhs.r), f_mul(rhs.i, rhs.i))
    IN  [r |-> f_div(f_mul(self, rhs.r), denom),
         i |-> f_div(f_mul(self, rhs.i), denom)]

conj(self) == [r |-> self.r, i |-> f_neg(self.i)]

neg(self) == [r |-> f_neg(self.r), i |-> f_neg(self.i)]

add(self, rhs) == [r |-> f_add(self.r, rhs.r), i |-> f_add(self.i, rhs.i)]

sub(self, rhs) == [r |-> f_sub(self.r, rhs.r), i |-> f_sub(self.i, rhs.i)]

mul(self, rhs) ==
    [r |-> f_sub(f_mul(self.r, rhs.r), f_mul(self.i, rhs.i)),
     i |-> f_add(f_mul(self.r, rhs.i), f_mul(self.i, rhs.r))]

div(self, rhs) ==
    LET denom == f_add(f_mul(rhs.r, rhs.r), f_mul(rhs.i, rhs.i))
    IN  [r |-> f_div(f_add(f_mul(self.r, rhs.r), f_mul(self.i, rhs.i)), denom),
         i |-> f_div(f_sub(f_mul(self.i, rhs.r), f_mul(self.r, rhs.i)), denom)]

\* The value of self after `self op= rhs`.
add_assign(self, rhs) ==
    LET self1 == [self EXCEPT !.r = f_add(self.r, rhs.r)]
    IN  [self1 EXCEPT !.i = f_add(self1.i, rhs.i)]

sub_assign(self, rhs) ==
    LET self1 == [self EXCEPT !.r = f_sub(self.r, rhs.r)]
    IN  [self1 EXCEPT !.i = f_sub(self1.i, rhs.i)]

mul_assign(self, rhs) == mul(self, rhs)

div_assign(self, rhs) == div(self, rhs)

\* PartialEq (derived): both components equal under the scalar's ==.
eq(self, other) == f_eq(self.r, other.r) /\ f_eq(self.i, other.i)

----------------------------------------------------------------------------
(* impl_ops_for_complex: scalar op Complex and Complex op scalar *)

add_t_c(self, rhs) == [r |-> f_add(self, rhs.r), i |-> rhs.i]
add_c_t(self, rhs) == [r |-> f_add(self.r, rhs), i |-> self.i]
sub_t_c(self, rhs) == [r |-> f_sub(self, rhs.r), i |-> f_neg(rhs.i)]
sub_c_t(self, rhs) == [r |-> f_sub(self.r, rhs), i |-> self.i]
mul_t_c(self, rhs) == [r |-> f_mul(self, rhs.r), i |-> f_mul(self, rhs.i)]
mul_c_t(self, rhs) == [r |-> f_mul(self.r, rhs), i |-> f_mul(self.i, rhs)]

div_t_c(self, rhs) ==
    LET denom == f_add(f_mul(rhs.r, rhs.r), f_mul(rhs.i, rhs.i))
    IN  [r |-> f_div(f_mul(self, rhs.r), denom),
         i |-> f_div(f_mul(f_neg(self), rhs.i), denom)]

div_c_t(self, rhs) == [r |-> f_div(self.r, rhs), i |-> f_div(self.i, rhs)]

----------------------------------------------------------------------------
(* impl_display_for_complex *)

Digits == << "0", "1", "2", "3", "4", "5", "6", "7", "8", "9" >>

RECURSIVE nat_str(_)
\* The decimal digits of a natural number.
nat_str(n) ==
    IF n < 10 THEN Digits[n + 1] ELSE nat_str(n \div 10) \o Digits[(n % 10) + 1]

RECURSIVE frac_str(_, _)
\* The decimal digits of num / den after the point, for num < den a power of 2.
frac_str(num, den) ==
    IF num = 0 THEN ""
    ELSE Digits[((10 * num) \div den) + 1] \o frac_str((10 * num) % den, den)

\* The digits `{}` prints for the magnitude of a scalar.
mag_str(v) ==
    IF v.k = "inf" THEN "inf"
    ELSE nat_str(v.m \div One) \o
         (IF v.m % One = 0 THEN "" ELSE "." \o frac_str(v.m % One, One))

\* Display of the scalar: what `{}` prints.
display(v) ==
    IF is_nan(v) THEN "NaN"
    ELSE (IF v.s = -1 THEN "-" ELSE "") \o mag_str(v)

\* A faulty variant of fmt: the imaginary part is printed with its sign after
\* the " - ".
fmt_signed_coefficient(self) ==
    IF f_eq(self.i, fin(1, 0)) THEN display(self.r)
    ELSE IF f_eq(self.r, fin(1, 0))
         THEN IF f_eq(self.i, lit(1, 1)) THEN "i"
              ELSE IF f_eq(self.i, lit(-1, 1)) THEN "-i"
              ELSE display(self.i) \o "*i"
    ELSE IF f_lt(self.i, fin(1, 0))
         THEN IF f_eq(self.i, lit(-1, 1)) THEN display(self.r) \o " - i"
              ELSE display(self.r) \o " - " \o display(self.i) \o "*i"
    ELSE IF f_eq(self.i, lit(1, 1)) THEN display(self.r) \o " + i"
         ELSE display(self.r) \o " + " \o display(self.i) \o "*i"

\* Display for Complex<$t>: the text written by fmt.
fmt(self) ==
    IF f_eq(self.i, fin(1, 0)) THEN display(self.r)
    ELSE IF f_eq(self.r, fin(1, 0))
         THEN IF f_eq(self.i, lit(1, 1)) THEN "i"
              ELSE IF f_eq(self.i, lit(-1, 1)) THEN "-i"
              ELSE display(self.i) \o "*i"
    ELSE IF f_lt(self.i, fin(1, 0))
         THEN IF f_eq(self.i, lit(-1, 1)) THEN display(self.r) \o " - i"
              ELSE display(self.r) \o " - " \o display(f_neg(self.i)) \o "*i"
    ELSE IF f_eq(self.i, lit(1, 1)) THEN display(self.r) \o " + i"
         ELSE display(self.r) \o " + " \o display(self.i) \o "*i"

----------------------------------------------------------------------------
(* impl_complex: the float methods; rm is the rounding of the library calls *)

abs(self, rm) == hypot(self.r, self.i, rm)

sign(self, rm) == div_c_t(self, abs(self, rm))

angle(self, rm) == atan2(self.i, self.r, rm)

cis(theta, rm) == new(f_cos(theta, rm), f_sin(theta, rm))

\* A faulty variant of cbrt: no early return for r == 0.
cbrt_no_zero_return(self, rm) ==
    LET r == f_cbrt(abs(self, rm), rm)
        theta == f_div(angle(self, rm), lit(3, 1))
        cbrt0 == mul_t_c(r, cis(theta, rm))
        cbrt_sq == mul(cbrt0, cbrt0)
    IN  sub(cbrt0, div(sub(mul(cbrt0, cbrt_sq), self), mul_t_c(lit(3, 1), cbrt_sq)))

cbrt(self, rm) ==
    LET r == f_cbrt(abs(self, rm), rm)
    IN  IF f_eq(r, fin(1, 0)) THEN new(fin(1, 0), fin(1, 0))
        ELSE LET theta == f_div(angle(self, rm), lit(3, 1))
                 cbrt0 == mul_t_c(r, cis(theta, rm))
                 cbrt_sq == mul(cbrt0, cbrt0)
             IN  sub(cbrt0, div(sub(mul(cbrt0, cbrt_sq), self),
                                mul_t_c(lit(3, 1), cbrt_sq)))

\* A faulty variant of ln: the zero value is answered with NaN.
ln_nan_at_zero(self, rm) ==
    IF is_zero(self.r) /\ is_zero(self.i) THEN new(NAN, NAN)
    ELSE new(f_ln(abs(self, rm), rm), angle(self, rm))

\* Complex::ln.
Complex_ln(self, rm) == new(f_ln(abs(self, rm), rm), angle(self, rm))

\* std::f32::consts::FRAC_1_SQRT_2 / std::f64::consts::FRAC_1_SQRT_2: the scalar
\* nearest to sqrt(1/2).
FRAC_1_SQRT_2 == f_sqrt(lit(1, 2))

\* A faulty variant of sqrt: the root of a negative real is not given the sign
\* of the imaginary part.
sqrt_no_copysign(self, rm) ==
    LET x == self.r
        y == self.i
        x_num == f_add(abs(self, rm), x)
    IN  IF f_eq(y, fin(1, 0))
        THEN IF f_ge(x, fin(1, 0)) THEN new(f_sqrt(x), y)
             ELSE new(fin(1, 0), f_sqrt(f_neg(x)))
        ELSE IF f_ne(x_num, fin(1, 0))
             THEN mul_c_t(new(f_sqrt(x_num), f_div(y, f_sqrt(x_num))), FRAC_1_SQRT_2)
             ELSE new(f_div(f_mul(lit(1, 2), f_abs(y)), f_sqrt(f_neg(x))),
                      f_sqrt(f_neg(x)))

\* Complex::sqrt.
Complex_sqrt(self, rm) ==
    LET x == self.r
        y == self.i
    IN  IF f_eq(y, fin(1, 0))
        THEN IF f_ge(x, fin(1, 0)) THEN new(f_sqrt(x), y)
             ELSE new(fin(1, 0), copysign(f_sqrt(f_neg(x)), y))
        ELSE LET r == abs(self, rm)
                 x_num == f_add(r, x)
             IN  IF f_ne(x_num, fin(1, 0))
                 THEN LET x_rt == f_sqrt(x_num)
                      IN  mul_c_t(new(x_rt, f_div(y, x_rt)), FRAC_1_SQRT_2)
                 ELSE LET x_rt == f_sqrt(f_neg(x))
                      IN  new(f_div(f_mul(lit(1, 2), f_abs(y)), x_rt),
                              copysign(x_rt, y))

\* Complex::recip: self.conj() / (self.r * self.r + self.i * self.i).
recip(self) ==
    div_c_t(conj(self), f_add(f_mul(self.r, self.r), f_mul(self.i, self.i)))

\* Complex::cos.
cos(self, rm) ==
    LET x == self.r
        y == self.i
    IN  new(f_mul(f_cos(x, rm), f_cosh(y, rm)),
            f_mul(f_neg(f_sin(x, rm)), f_sinh(y, rm)))

\* Complex::sin.
sin(self, rm) ==
    LET x == self.r
        y == self.i
    IN  new(f_mul(f_sin(x, rm), f_cosh(y, rm)),
            f_mul(f_cos(x, rm), f_sinh(y, rm)))

\* Complex::tan.
tan(self, rm) ==
    LET x == self.r
        y == self.i
        num == new(f_tan(x, rm), f_tanh(y, rm))
        dom == new(lit(1, 1), f_mul(f_neg(f_tan(x, rm)), f_tanh(y, rm)))
    IN  div(num, dom)

\* Complex::sec.
sec(self, rm) == recip(cos(self, rm))

\* Complex::csc.
csc(self, rm) == recip(sin(self, rm))

\* A variant of cot that takes the reciprocal of tan.
cot_recip_of_tan(self, rm) == recip(tan(self, rm))

\* Complex::cot.
cot(self, rm) ==
    LET x == self.r
        y == self.i
        num == new(lit(1, 1), f_mul(f_neg(f_tan(x, rm)), f_tanh(y, rm)))
        dom == new(f_tan(x, rm), f_tanh(y, rm))
    IN  div(num, dom)

\* Complex::cosh.
cosh(self, rm) ==
    LET x == self.r
        y == self.i
    IN  new(f_mul(f_cosh(x, rm), f_cos(y, rm)),
            f_mul(f_sinh(x, rm), f_sin(y, rm)))

\* Complex::sinh.
sinh(self, rm) ==
    LET x == self.r
        y == self.i
    IN  new(f_mul(f_sinh(x, rm), f_cos(y, rm)),
            f_mul(f_cosh(x, rm), f_sin(y, rm)))

\* Complex::tanh.
tanh(self, rm) ==
    LET x == self.r
        y == self.i
        num == new(f_tanh(x, rm), f_tan(y, rm))
        dom == new(lit(1, 1), f_mul(f_tanh(x, rm), f_tan(y, rm)))
    IN  div(num, dom)

\* Complex::sech.
sech(self, rm) == recip(cosh(self, rm))

\* Complex::csch.
csch(self, rm) == recip(sinh(self, rm))

\* Complex::coth.
coth(self, rm) ==
    LET x == self.r
        y == self.i
        num == new(lit(1, 1), f_mul(f_tanh(x, rm), f_tan(y, rm)))
        dom == new(f_tanh(x, rm), f_tan(y, rm))
    IN  div(num, dom)

----------------------------------------------------------------------------
(* The caller: operands held by value, one operation applied to them *)

VARIABLES
    call,   \* the operation applied ("init" before any), or the solver's position
    a, b, c, \* Complex operands
    x,      \* a scalar operand
    lm,     \* the rounding of the library calls (hypot, cbrt, cos, sin, atan2)
    res,    \* the Complex value returned by the operation
    a0, b0, \* the operands as they were before a compound assignment
    coef,   \* the coefficients passed to quad or cubic
    loc,    \* the locals of cubic (a record), << >> outside the solvers
    roots,  \* the array of roots, <<>> until it is built
    idx,    \* the index of the loop of cubic over its roots
    callers \* the concurrent callers and the values they hold, << >> elsewhere

vars == << call, a, b, c, x, lm, res, a0, b0, coef, loc, roots, idx, callers >>

solver_vars == << coef, loc, roots, idx >>

ZERO == new(fin(1, 0), fin(1, 0))

\* The scalars operands are drawn from: the special values, both zeros, the
\* extremes of the format, and values of moderate magnitude.
Special == { NAN, INFINITY, NEG_INFINITY, fin(1, 0), fin(-1, 0) }
Extreme == { fin(1, MaxMag), fin(-1, 1) }
Moderate == { lit(1, 1), lit(-1, 1), lit(2, 1), lit(-3, 1), lit(3, 4),
              lit(-21, 16), lit(5, 2) }
Scalars == Special \cup Extreme \cup Moderate
Modes == { "ne", "dn", "up" }

Complexes(S) == { new(re, im) : re \in S, im \in S }

InitRest ==
    /\ call = "init"
    /\ res = ZERO
    /\ a0 = ZERO
    /\ b0 = ZERO
    /\ coef = << >>
    /\ loc = << >>
    /\ roots = << >>
    /\ idx = 0
    /\ callers = << >>

\* A binary operator applied to a and b by value: the operands stay as they are.
Binary(name, value) ==
    /\ call = "init"
    /\ call' = name
    /\ res' = value
    /\ UNCHANGED << callers, a, b, c, x, lm, a0, b0, solver_vars >>

\* A compound assignment a op= b: a is overwritten, b is passed by value.
Assign(name, value) ==
    /\ call = "init"
    /\ call' = name
    /\ a' = value
    /\ a0' = a
    /\ b0' = b
    /\ UNCHANGED << callers, b, c, x, lm, res, solver_vars >>

Neg == Binary("neg", neg(a))
Conj == Binary("conj", conj(a))
Add == Binary("add", add(a, b))
Sub == Binary("sub", sub(a, b))
Mul == Binary("mul", mul(a, b))
Div == Binary("div", div(a, b))
AddAssign == Assign("add_assign", add_assign(a, b))
SubAssign == Assign("sub_assign", sub_assign(a, b))
MulAssign == Assign("mul_assign", mul_assign(a, b))
DivAssign == Assign("div_assign", div_assign(a, b))

InitArith ==
    /\ a \in Complexes(Scalars)
    /\ b \in Complexes(Scalars)
    /\ c = ZERO
    /\ x = fin(1, 0)
    /\ lm = "ne"
    /\ InitRest

NextArith ==
    \/ Neg \/ Conj \/ Add \/ Sub \/ Mul \/ Div
    \/ AddAssign \/ SubAssign \/ MulAssign \/ DivAssign

SpecArith == InitArith /\ [][NextArith]_vars

----------------------------------------------------------------------------
(* Scalar op Complex, Complex op scalar, and sign *)

AddTC == Binary("add_t_c", add_t_c(x, a))
AddCT == Binary("add_c_t", add_c_t(a, x))
SubTC == Binary("sub_t_c", sub_t_c(x, a))
SubCT == Binary("sub_c_t", sub_c_t(a, x))
MulTC == Binary("mul_t_c", mul_t_c(x, a))
MulCT == Binary("mul_c_t", mul_c_t(a, x))
DivTC == Binary("div_t_c", div_t_c(x, a))
DivCT == Binary("div_c_t", div_c_t(a, x))

\* a.sign(), with the rounding rm of its call to hypot.
Sign ==
    \E rm \in Modes :
        /\ call = "init"
        /\ call' = "sign"
        /\ lm' = rm
        /\ res' = sign(a, rm)
        /\ UNCHANGED << callers, a, b, c, x, a0, b0, solver_vars >>

InitMixed ==
    /\ a \in Complexes(Scalars)
    /\ x \in Scalars
    /\ b \in Complexes({ fin(1, 0), fin(-1, 0) })
    /\ c = ZERO
    /\ lm = "ne"
    /\ InitRest

NextMixed ==
    \/ AddTC \/ AddCT \/ SubTC \/ SubCT
    \/ MulTC \/ MulCT \/ DivTC \/ DivCT
    \/ Div \/ Sign

SpecMixed == InitMixed /\ [][NextMixed]_vars

----------------------------------------------------------------------------
(* The float methods sqrt, cbrt and ln applied to a *)

\* A method of a that calls library functions, which round as rm says.
Method(name, rm, value) ==
    /\ call = "init"
    /\ call' = name
    /\ lm' = rm
    /\ res' = value
    /\ UNCHANGED << callers, a, b, c, x, a0, b0, solver_vars >>

Sqrt == \E rm \in Modes : Method("sqrt", rm, Complex_sqrt(a, rm))
Cbrt == \E rm \in Modes : Method("cbrt", rm, cbrt(a, rm))
Ln == \E rm \in Modes : Method("ln", rm, Complex_ln(a, rm))

\* The operands of check_sqrt and check_cbrt at the scale of this format (-5,
\* -2.5, -1, -0.5, 0.5, 1, 2.5, 5 and multiples of the root of EPSILON), with the
\* special values and the extremes.
FloatOperands ==
    Special \cup Extreme \cup
    { lit(n, 16) : n \in { -80, -40, -16, -8, -2, 2, 3, 5, 8, 12, 16, 40, 80 } }

InitFloat ==
    /\ a \in Complexes(FloatOperands)
    /\ b = ZERO
    /\ c = ZERO
    /\ x = fin(1, 0)
    /\ lm = "ne"
    /\ InitRest

NextFloat == Sqrt \/ Cbrt \/ Ln

SpecFloat == InitFloat /\ [][NextFloat]_vars

----------------------------------------------------------------------------
(* recip and the trigonometric and hyperbolic methods applied to a *)

Recip == Binary("recip", recip(a))
Cos == \E rm \in Modes : Method("cos", rm, cos(a, rm))
Sin == \E rm \in Modes : Method("sin", rm, sin(a, rm))
Tan == \E rm \in Modes : Method("tan", rm, tan(a, rm))
Sec == \E rm \in Modes : Method("sec", rm, sec(a, rm))
Csc == \E rm \in Modes : Method("csc", rm, csc(a, rm))
Cot == \E rm \in Modes : Method("cot", rm, cot(a, rm))
Cosh == \E rm \in Modes : Method("cosh", rm, cosh(a, rm))
Sinh == \E rm \in Modes : Method("sinh", rm, sinh(a, rm))
Tanh == \E rm \in Modes : Method("tanh", rm, tanh(a, rm))
Sech == \E rm \in Modes : Method("sech", rm, sech(a, rm))
Csch == \E rm \in Modes : Method("csch", rm, csch(a, rm))
Coth == \E rm \in Modes : Method("coth", rm, coth(a, rm))

\* Arguments around the quadrants of the circle and on both sides of 1, with
\* the special values and the extremes.
TrigOperands ==
    Special \cup Extreme \cup
    { lit(n, 4) : n \in { -12, -6, -4, -1, 1, 2, 3, 4, 6, 9, 12, 20 } }

InitTrig ==
    /\ a \in Complexes(TrigOperands)
    /\ b = ZERO
    /\ c = ZERO
    /\ x = fin(1, 0)
    /\ lm = "ne"
    /\ InitRest

NextTrig ==
    \/ Recip \/ Cos \/ Sin \/ Tan \/ Sec \/ Csc \/ Cot
    \/ Cosh \/ Sinh \/ Tanh \/ Sech \/ Csch \/ Coth

SpecTrig == InitTrig /\ [][NextTrig]_vars

----------------------------------------------------------------------------
(* Concurrent callers, each holding its own Complex variable z and applying one *)
(* operation to it with an operand w passed by value.  A compound assignment   *)
(* takes two steps (its two statements, or the evaluation of the right-hand    *)
(* side and the store), between which the other caller may run.                *)

Callers == { 1, 2 }

\* A faulty variant of own: every caller's operation works on the same variable.
own_shared(t) == 1

\* The variable that `&mut self` refers to in an operation of caller t: the
\* caller's own, a Copy value that nothing else aliases.
own(t) == t

AssignByField == { "add_assign", "sub_assign" }
AssignWhole == { "mul_assign", "div_assign" }
ByValue == { "mul", "div" }

ConcValues ==
    { new(lit(1, 1), lit(4, 1)), new(lit(3, 1), lit(-2, 1)), new(lit(3, 4), lit(-21, 16)) }

\* A step of caller t from one position to the next, leaving the callers'
\* variables as in `updated`.
CallerStep(t, here, there, updated) ==
    /\ callers.pc[t] = here
    /\ callers' = [updated EXCEPT !.pc[t] = there]
    /\ UNCHANGED << call, a, b, c, x, lm, res, a0, b0, solver_vars >>

\* self.r += rhs.r, or self.r -= rhs.r.
FieldR(t) ==
    /\ callers.op[t] \in AssignByField
    /\ CallerStep(t, "start", "field_i",
           [callers EXCEPT !.mem[own(t)].r =
               IF callers.op[t] = "add_assign" THEN f_add(@, callers.w[t].r)
               ELSE f_sub(@, callers.w[t].r)])

\* self.i += rhs.i, or self.i -= rhs.i.
FieldI(t) ==
    CallerStep(t, "field_i", "done",
        [callers EXCEPT !.mem[own(t)].i =
            IF callers.op[t] = "add_assign" THEN f_add(@, callers.w[t].i)
            ELSE f_sub(@, callers.w[t].i)])

\* The right-hand side of *self = *self * rhs, or of *self = *self / rhs.
WholeEval(t) ==
    /\ callers.op[t] \in AssignWhole
    /\ CallerStep(t, "start", "store",
           [callers EXCEPT !.tmp[t] =
               IF callers.op[t] = "mul_assign"
               THEN mul(callers.mem[own(t)], callers.w[t])
               ELSE div(callers.mem[own(t)], callers.w[t])])

\* The store to *self.
WholeStore(t) ==
    CallerStep(t, "store", "done",
        [callers EXCEPT !.mem[own(t)] = callers.tmp[t]])

\* z * w or z / w: both operands are copied, the result is a new value.
CallByValue(t) ==
    /\ callers.op[t] \in ByValue
    /\ CallerStep(t, "start", "done",
           [callers EXCEPT !.out[t] =
               IF callers.op[t] = "mul"
               THEN mul(callers.mem[own(t)], callers.w[t])
               ELSE div(callers.mem[own(t)], callers.w[t])])

InitConc ==
    /\ \E z \in [Callers -> ConcValues], w \in [Callers -> ConcValues],
          op \in [Callers -> AssignByField \cup AssignWhole \cup ByValue] :
          callers = [mem |-> z, z0 |-> z, w |-> w, op |-> op,
                     pc |-> [t \in Callers |-> "start"],
                     tmp |-> [t \in Callers |-> ZERO],
                     out |-> [t \in Callers |-> ZERO]]
    /\ a = ZERO /\ b = ZERO /\ c = ZERO
    /\ x = fin(1, 0)
    /\ lm = "ne"
    /\ call = "init"
    /\ res = ZERO /\ a0 = ZERO /\ b0 = ZERO
    /\ coef = << >> /\ loc = << >> /\ roots = << >>
    /\ idx = 0

NextConc ==
    \E t \in Callers :
        FieldR(t) \/ FieldI(t) \/ WholeEval(t) \/ WholeStore(t) \/ CallByValue(t)

SpecConc == InitConc /\ [][NextConc]_vars

----------------------------------------------------------------------------
(* A caller that prints a: a.to_string() *)

Fmt == Binary("fmt", fmt(a))

DisplayOperands ==
    Special \cup { fin(1, MaxMag), lit(1, 1), lit(-1, 1), lit(3, 1), lit(-3, 1),
                    lit(4, 1), lit(-4, 1), lit(3, 4), lit(-21, 16) }

InitDisplay ==
    /\ a \in Complexes(DisplayOperands)
    /\ b = ZERO
    /\ c = ZERO
    /\ x = fin(1, 0)
    /\ lm = "ne"
    /\ InitRest

NextDisplay == Fmt

SpecDisplay == InitDisplay /\ [][NextDisplay]_vars

----------------------------------------------------------------------------
(* Vocabulary of the properties *)

is_finite_c(z) == is_finite(z.r) /\ is_finite(z.i)
is_zero_c(z) == is_zero(z.r) /\ is_zero(z.i)
nan_or_inf(v) == v.k = "nan" \/ v.k = "inf"

\* |v| for an integer v.
iabs(v) == IF v < 0 THEN -v ELSE v

\* The exact value of a finite scalar, in units of 2^-F.
val(v) == v.s * v.m

\* The exact squared magnitude of a finite Complex, in units of 2^-2F.
norm2(z) == z.r.m * z.r.m + z.i.m * z.i.m

\* floor(n * v / d) for naturals n, v, d with n small.
scale(n, v, d) == n * (v \div d) + ((n * (v % d)) \div d)

\* A product that rounded to a finite value without underflow: it is zero only if
\* an operand is, and otherwise at least the least normal scalar.
mul_ok(u, v) ==
    /\ is_finite(f_mul(u, v))
    /\ (f_mul(u, v).m >= MinNormal \/ is_zero(u) \/ is_zero(v))

\* A quotient of finite scalars that rounded to a finite value without underflow.
div_ok(u, v) ==
    /\ is_finite(u) /\ is_finite(v) /\ ~is_zero(v)
    /\ is_finite(f_div(u, v))
    /\ (f_div(u, v).m >= MinNormal \/ is_zero(u))

\* No scalar operation of z * w overflows or underflows.
mul_in_range(z, w) ==
    /\ mul_ok(z.r, w.r) /\ mul_ok(z.i, w.i) /\ mul_ok(z.r, w.i) /\ mul_ok(z.i, w.r)
    /\ is_finite_c(mul(z, w))

\* No scalar operation of z / w overflows or underflows, and the divisor's squared
\* magnitude is not zero.
div_in_range(z, w) ==
    /\ mul_ok(w.r, w.r) /\ mul_ok(w.i, w.i)
    /\ mul_ok(z.r, w.r) /\ mul_ok(z.i, w.i) /\ mul_ok(z.i, w.r) /\ mul_ok(z.r, w.i)
    /\ div_ok(f_add(f_mul(z.r, w.r), f_mul(z.i, w.i)),
              f_add(f_mul(w.r, w.r), f_mul(w.i, w.i)))
    /\ div_ok(f_sub(f_mul(z.i, w.r), f_mul(z.r, w.i)),
              f_add(f_mul(w.r, w.r), f_mul(w.i, w.i)))

\* |z - w| <= n * EPSILON * |w| for finite z and w, in exact arithmetic.
within(z, w, n) ==
    LET dr == val(z.r) - val(w.r)
        di == val(z.i) - val(w.i)
    IN  dr * dr + di * di <= scale(n * n, norm2(w), 4^(P - 1))

----------------------------------------------------------------------------
(* C4: compound assignment *)

\* The binary operator a compound assignment stands for.
binary_of(name, z, w) ==
    CASE name = "add_assign" -> add(z, w)
      [] name = "sub_assign" -> sub(z, w)
      [] name = "mul_assign" -> mul(z, w)
      [] OTHER -> div(z, w)

AssignOps == { "add_assign", "sub_assign", "mul_assign", "div_assign" }

\* C4: after `a op= b`, for op in {+, -, *, /}, a holds the value the binary
\* operator returns for (a before, b), b is unchanged, and nothing else of the
\* caller's state (the third operand, the scalar, the last result) has changed.
C4_AssignIsBinaryThenOverwrite ==
    call \in AssignOps =>
        /\ a = binary_of(call, a0, b0)
        /\ b = b0
        /\ c = ZERO /\ x = fin(1, 0) /\ res = ZERO

\* (1 + 2i) *= (1 + 2i) leaves -3 + 4i, as in the test assign_ops; and a
\* subtraction whose two components differ has been assigned.
C4_Witness ==
    \/ /\ call = "mul_assign"
       /\ a0 = new(lit(1, 1), lit(2, 1)) /\ b0 = a0
       /\ a = new(lit(-3, 1), lit(4, 1))
    \/ /\ call = "sub_assign"
       /\ a0 = new(lit(1, 1), lit(2, 1)) /\ b0 = new(lit(2, 1), lit(-3, 1))
       /\ a = new(lit(-1, 1), lit(5, 1))

----------------------------------------------------------------------------
(* C5: the quotient *)

\* The quotient as the specification writes it.
quotient(z, w) ==
    LET denom == f_add(f_mul(w.r, w.r), f_mul(w.i, w.i))
    IN  new(f_div(f_add(f_mul(z.r, w.r), f_mul(z.i, w.i)), denom),
            f_div(f_sub(f_mul(z.i, w.r), f_mul(z.r, w.i)), denom))

denom_of(w) == f_add(f_mul(w.r, w.r), f_mul(w.i, w.i))

\* C5 as claimed: a / b is ((a.r*b.r + a.i*b.i)/denom, (a.i*b.r - a.r*b.i)/denom)
\* whenever denom = b.r*b.r + b.i*b.i is not zero, and a / a == (1, 0) for every
\* nonzero (finite) a.
C5_Original ==
    call = "div" =>
        /\ f_ne(denom_of(b), fin(1, 0)) => res = quotient(a, b)
        /\ (a = b /\ is_finite_c(a) /\ ~is_zero_c(a)) =>
               eq(res, new(lit(1, 1), fin(1, 0)))

\* C5 as amended: the same, with a / a == (1, 0) for every a whose squared
\* magnitude a.r*a.r + a.i*a.i, as the scalar type computes it, is finite and not
\* zero (it overflows or underflows for a far from unit magnitude).
C5_DivFormula ==
    call = "div" =>
        /\ f_ne(denom_of(b), fin(1, 0)) => res = quotient(a, b)
        /\ (a = b /\ is_finite(denom_of(a)) /\ ~is_zero(denom_of(a))) =>
               eq(res, new(lit(1, 1), fin(1, 0)))

\* (1 + 2i) / (1 + 2i) has returned 1, as in the test basic_ops.
C5_Witness ==
    /\ call = "div"
    /\ a = new(lit(1, 1), lit(2, 1)) /\ b = a
    /\ res = new(lit(1, 1), fin(1, 0))

----------------------------------------------------------------------------
(* C6: division undoes multiplication *)

\* C6 as claimed: for finite a and finite b != (0, 0), (a / b) * b and
\* (a * b) / b are finite and equal a up to rounding (within 6 * EPSILON * |a|).
C6_Original ==
    (is_finite_c(a) /\ is_finite_c(b) /\ ~is_zero_c(b)) =>
        /\ call = "div" =>
               /\ is_finite_c(mul(res, b))
               /\ within(mul(res, b), a, 6)
        /\ call = "mul" =>
               /\ is_finite_c(div(res, b))
               /\ within(div(res, b), a, 6)

\* C6 as amended: the same for finite a and b of moderate magnitude, that is when
\* no scalar operation of the quotient and of the product overflows or underflows.
C6_DivInvertsMul ==
    (is_finite_c(a) /\ is_finite_c(b)) =>
        /\ (call = "div" /\ div_in_range(a, b) /\ mul_in_range(res, b)) =>
               within(mul(res, b), a, 6)
        /\ (call = "mul" /\ mul_in_range(a, b) /\ div_in_range(res, b)) =>
               within(div(res, b), a, 6)

\* A quotient that had to be rounded, multiplied back: (-1 - 1.3125i) / (-1 + 0.75i).
C6_Witness ==
    /\ call = "div"
    /\ a = new(lit(-1, 1), lit(-21, 16)) /\ b = new(lit(-1, 1), lit(3, 4))
    /\ div_in_range(a, b) /\ mul_in_range(res, b)
    /\ ~eq(mul(res, b), a) /\ within(mul(res, b), a, 6)

----------------------------------------------------------------------------
(* C7: division by the zero value *)

\* C7: a / b for b of zero magnitude (each component +0 or -0) returns, whatever
\* a is, a value whose components are each NaN or an infinity; the call is
\* enabled for every such operand (no error path), and sign of a zero value
\* returns NaN components.
C7_DivByZeroIsNanOrInf ==
    /\ (call = "init" /\ is_zero_c(b)) => ENABLED Div
    /\ (call = "div" /\ is_zero_c(b)) => nan_or_inf(res.r) /\ nan_or_inf(res.i)
    /\ (call = "sign" /\ is_zero_c(a)) => is_nan(res.r) /\ is_nan(res.i)

\* Both cases have happened: (1 + 2i) / 0 and sign(-0 + 0i).
C7_Witness ==
    \/ /\ call = "div" /\ is_zero_c(b) /\ a = new(lit(1, 1), lit(2, 1))
       /\ is_nan(res.r)
    \/ /\ call = "sign" /\ a = new(fin(-1, 0), fin(1, 0)) /\ is_nan(res.i)

----------------------------------------------------------------------------
(* C9: a * conj(a) *)

\* C9 as claimed: for every finite a, a * conj(a) has imaginary part 0 and real
\* part a.r*a.r + a.i*a.i.
C9_Original ==
    (call = "conj" /\ is_finite_c(a)) =>
        /\ f_eq(mul(a, res).i, fin(1, 0))
        /\ mul(a, res).r = f_add(f_mul(a.r, a.r), f_mul(a.i, a.i))

\* C9 as amended: the same for every finite a whose product a.r*a.i does not
\* overflow; and then the real part is abs(a)^2 up to rounding (within
\* 4 * EPSILON of it) when neither square overflows or underflows.
C9_MulConj ==
    (call = "conj" /\ is_finite_c(a) /\ is_finite(f_mul(a.r, a.i))) =>
        /\ f_eq(mul(a, res).i, fin(1, 0))
        /\ mul(a, res).r = f_add(f_mul(a.r, a.r), f_mul(a.i, a.i))
        /\ \A rm \in Modes :
               (/\ mul_ok(a.r, a.r) /\ mul_ok(a.i, a.i)
                /\ is_finite(mul(a, res).r)
                /\ mul_ok(abs(a, rm), abs(a, rm))) =>
                   within(from(f_mul(abs(a, rm), abs(a, rm))), from(mul(a, res).r), 4)

\* conj(-3 + 2i) = -3 - 2i has been taken, and the product is 13.
C9_Witness ==
    /\ call = "conj"
    /\ a = new(lit(-3, 1), lit(2, 1))
    /\ res = new(lit(-3, 1), lit(-2, 1))
    /\ mul(a, res) = new(lit(13, 1), fin(1, 0))

----------------------------------------------------------------------------
(* C10: operand order of the mixed operators *)

no_nan_c(z) == ~is_nan(z.r) /\ ~is_nan(z.i)

\* C10 as claimed: for every finite scalar x and every Complex z,
\* x + z == z + x, x * z == z * x and x - z == -(z - x), with == the derived
\* PartialEq of Complex.
C10_Original ==
    is_finite(x) =>
        /\ call = "add_t_c" => eq(res, add_c_t(a, x))
        /\ call = "mul_t_c" => eq(res, mul_c_t(a, x))
        /\ call = "sub_t_c" => eq(res, neg(sub_c_t(a, x)))

\* C10 as amended: for every finite scalar x and every Complex z without a NaN
\* component, x + z == z + x and x - z == -(z - x); and x * z == z * x when
\* moreover z is finite or x is not zero.  The two orders always return the same
\* components (NaN included) up to the sign of a zero.
C10_MixedOrder ==
    /\ (is_finite(x) /\ no_nan_c(a)) =>
           /\ call = "add_t_c" => eq(res, add_c_t(a, x))
           /\ call = "sub_t_c" => eq(res, neg(sub_c_t(a, x)))
           /\ (call = "mul_t_c" /\ (is_finite_c(a) \/ ~is_zero(x))) =>
                  eq(res, mul_c_t(a, x))
    /\ call = "add_c_t" => res = add_t_c(x, a)
    /\ call = "mul_c_t" => res = mul_t_c(x, a)

\* 2.5 - (0.75 + 2i) = 1.75 - 2i has been computed (the imaginary part changes
\* sign), and 2.5 * (0.75 + 2i), whose real part is rounded.
C10_Witness ==
    /\ x = lit(5, 2) /\ a = new(lit(3, 4), lit(2, 1))
    /\ \/ call = "sub_t_c" /\ res = new(lit(7, 4), lit(-2, 1))
       \/ call = "mul_t_c" /\ res = new(lit(15, 8), lit(5, 1))

----------------------------------------------------------------------------
(* C11: the mixed operators against promotion of the scalar *)

\* Two scalars that are the same up to the sign of a zero; NaN is the same as NaN.
same(u, v) == (is_nan(u) /\ is_nan(v)) \/ f_eq(u, v)
same_c(z, w) == same(z.r, w.r) /\ same(z.i, w.i)

\* The Complex-Complex operation a mixed operator would be after promoting its
\* scalar operand with From<T>.
promoted(name, s, z) ==
    CASE name = "add_t_c" -> add(from(s), z)
      [] name = "add_c_t" -> add(z, from(s))
      [] name = "sub_t_c" -> sub(from(s), z)
      [] name = "sub_c_t" -> sub(z, from(s))
      [] name = "mul_t_c" -> mul(from(s), z)
      [] name = "mul_c_t" -> mul(z, from(s))

AddSubOps == { "add_t_c", "add_c_t", "sub_t_c", "sub_c_t" }
MulOps == { "mul_t_c", "mul_c_t" }

\* C11 as claimed: for every scalar x and every Complex z, each mixed +, - and *
\* returns the value of the Complex-Complex operator applied to (x, 0) and z
\* (read in the weakest way: same components up to the sign of a zero).
C11_Original ==
    call \in AddSubOps \cup MulOps => same_c(res, promoted(call, x, a))

\* C11 as amended: for every scalar x and every Complex z the mixed + and - return
\* the components of the promoted operation up to the sign of a zero, and the mixed
\* * does when z is finite; the two are == whenever moreover no component of the
\* result is NaN (always so when x and z are finite).
C11_MixedIsPromoted ==
    /\ call \in AddSubOps => same_c(res, promoted(call, x, a))
    /\ (call \in MulOps /\ is_finite_c(a)) => same_c(res, promoted(call, x, a))
    /\ (call \in AddSubOps \cup MulOps /\ is_finite_c(a) /\ no_nan_c(res)) =>
           eq(res, promoted(call, x, a))
    /\ (call \in AddSubOps \cup MulOps /\ is_finite_c(a) /\ is_finite(x)) =>
           no_nan_c(res)

\* (-21/16 + 2.5i) * 0.75 has been computed, both components rounded, and it is
\* the product of (-21/16 + 2.5i) and (0.75 + 0i).
C11_Witness ==
    /\ call = "mul_c_t" /\ x = lit(3, 4) /\ a = new(lit(-21, 16), lit(5, 2))
    /\ res = new(lit(-1, 1), lit(15, 8))
    /\ eq(res, mul(a, new(lit(3, 4), fin(1, 0))))

----------------------------------------------------------------------------
(* C12: scalar / Complex and Complex / scalar *)

\* x * conj(z) divided by z.r*z.r + z.i*z.i, built from the other operators.
conj_over_denom(s, z) == div_c_t(mul_t_c(s, conj(z)), denom_of(z))

\* C12 as claimed: for every scalar x and every Complex z of nonzero magnitude,
\* x / z is x * conj(z) divided by z.r*z.r + z.i*z.i and agrees with (x, 0) / z
\* (read in the weakest way: same components up to the sign of a zero); and z / x
\* divides both components by x.
C12_Original ==
    /\ (call = "div_t_c" /\ ~is_zero_c(a)) =>
           /\ res = conj_over_denom(x, a)
           /\ same_c(res, div(from(x), a))
    /\ call = "div_c_t" => res = new(f_div(a.r, x), f_div(a.i, x))

\* C12 as amended: for every scalar x and every Complex z, x / z has exactly the
\* components of x * conj(z) divided by z.r*z.r + z.i*z.i; for every finite z it
\* has the components of (x, 0) / z up to the sign of a zero (NaN where the other
\* is NaN), the two being == when no component is NaN; and z / x divides both
\* components by x.
C12_ScalarDiv ==
    /\ call = "div_t_c" =>
           /\ res = conj_over_denom(x, a)
           /\ is_finite_c(a) => same_c(res, div(from(x), a))
           /\ (is_finite_c(a) /\ no_nan_c(res)) => eq(res, div(from(x), a))
    /\ call = "div_c_t" => res = new(f_div(a.r, x), f_div(a.i, x))

\* 2.5 / (-3 + 2i) has been computed: (-7.5/13, -5/13), both rounded, the value
\* of (2.5 + 0i) / (-3 + 2i).
C12_Witness ==
    /\ call = "div_t_c" /\ x = lit(5, 2) /\ a = new(lit(-3, 1), lit(2, 1))
    /\ res = new(lit(-15, 26), lit(-5, 13))
    /\ eq(res, div(new(lit(5, 2), fin(1, 0)), a))

----------------------------------------------------------------------------
(* C8: a caller that chains two additions or two multiplications *)

\* The second operation of (a + b) + c and of (a * b) * c: the last result is
\* the left operand.
AddC ==
    /\ call = "add"
    /\ call' = "add_c"
    /\ res' = add(res, c)
    /\ UNCHANGED << callers, a, b, c, x, lm, a0, b0, solver_vars >>

MulC ==
    /\ call = "mul"
    /\ call' = "mul_c"
    /\ res' = mul(res, c)
    /\ UNCHANGED << callers, a, b, c, x, lm, a0, b0, solver_vars >>

Operands == { fin(1, 0), fin(1, MaxMag), fin(-1, 1), lit(1, 1), lit(-3, 1),
              lit(3, 4), lit(-21, 16) }

InitAssoc ==
    /\ a \in Complexes(Operands)
    /\ b \in Complexes(Operands)
    /\ c \in Complexes(Operands)
    /\ x = fin(1, 0)
    /\ lm = "ne"
    /\ InitRest

NextAssoc == Add \/ Mul \/ AddC \/ MulC

SpecAssoc == InitAssoc /\ [][NextAssoc]_vars

\* |u - v| <= n * EPSILON * t / 2^F for finite scalars u, v and a natural t.
near(u, v, n, t) == iabs(val(u) - val(v)) * 2^(P - 1) <= n * t

\* |z.r| + |z.i| of a finite Complex, in units of 2^-F.
norm1(z) == z.r.m + z.i.m

\* |a|1 * |b|1 * |c|1 in units of 2^-F, rounded down.
norm1_prod(z, w, v) == scale(norm1(v), norm1(z) * norm1(w), One * One)

\* Each component of z is within 3 * EPSILON * (|a| + |b| + |c|) of that of w,
\* the magnitudes taken component by component.
add_close(z, w) ==
    /\ near(z.r, w.r, 3, a.r.m + b.r.m + c.r.m)
    /\ near(z.i, w.i, 3, a.i.m + b.i.m + c.i.m)

\* Each component of z is within 5 * EPSILON * |a|1 * |b|1 * |c|1 of that of w.
mul_close(z, w) ==
    /\ near(z.r, w.r, 5, norm1_prod(a, b, c))
    /\ near(z.i, w.i, 5, norm1_prod(a, b, c))

\* C8 as claimed: for all finite a, b, c, a + (b + c) and (a + b) + c are
\* finite and equal up to rounding, and so are a * (b * c) and (a * b) * c.
C8_Original ==
    (is_finite_c(a) /\ is_finite_c(b) /\ is_finite_c(c)) =>
        /\ call = "add_c" =>
               /\ is_finite_c(res) /\ is_finite_c(add(a, add(b, c)))
               /\ add_close(res, add(a, add(b, c)))
        /\ call = "mul_c" =>
               /\ is_finite_c(res) /\ is_finite_c(mul(a, mul(b, c)))
               /\ mul_close(res, mul(a, mul(b, c)))

\* C8 as amended: the same for finite a, b, c when no intermediate sum
\* overflows, respectively when no scalar operation of the four products
\* overflows or underflows.  The two sums are within 3 * EPSILON of each other
\* and the two products within 5 * EPSILON, relative to the magnitudes of the
\* operands; they are not equal in general.
C8_Associative ==
    (is_finite_c(a) /\ is_finite_c(b) /\ is_finite_c(c)) =>
        /\ (/\ call = "add_c"
            /\ is_finite_c(add(a, b)) /\ is_finite_c(res)
            /\ is_finite_c(add(b, c)) /\ is_finite_c(add(a, add(b, c)))) =>
               add_close(res, add(a, add(b, c)))
        /\ (/\ call = "mul_c"
            /\ mul_in_range(a, b) /\ mul_in_range(mul(a, b), c)
            /\ mul_in_range(b, c) /\ mul_in_range(a, mul(b, c))) =>
               mul_close(res, mul(a, mul(b, c)))

\* Both chains have run on operands where the two groupings differ by a
\* rounding: sums and products of 0.75 - 3i, -1.3125 + i and -3 + 0.75i.
C8_Witness ==
    /\ a = new(lit(3, 4), lit(-3, 1))
    /\ b = new(lit(-21, 16), lit(1, 1))
    /\ c = new(lit(-3, 1), lit(3, 4))
    /\ \/ /\ call = "add_c"
          /\ ~eq(res, add(a, add(b, c)))
          /\ add_close(res, add(a, add(b, c)))
       \/ /\ call = "mul_c"
          /\ mul_in_range(a, b) /\ mul_in_range(mul(a, b), c)
          /\ mul_in_range(b, c) /\ mul_in_range(a, mul(b, c))
          /\ ~eq(res, mul(a, mul(b, c)))
          /\ mul_close(res, mul(a, mul(b, c)))

----------------------------------------------------------------------------
(* complex_mod: the functions of the modules c32 and c64 *)

I == new(fin(1, 0), lit(1, 1))
SQRT_3 == f_sqrt(lit(3, 1))
CBRT_1 == new(lit(-1, 2), f_mul(lit(1, 2), SQRT_3))

\* A faulty variant of c64::sqrt, which takes the real square root of every scalar.
c64_sqrt_of_any_sign(sq) == new(f_sqrt(sq), fin(1, 0))

\* c64::sqrt, the complex square root of a scalar.
c64_sqrt(sq) ==
    IF f_ge(sq, fin(1, 0)) THEN new(f_sqrt(sq), fin(1, 0))
    ELSE new(fin(1, 0), f_sqrt(f_neg(sq)))

\* c64::ln, the complex natural logarithm of a scalar.
c64_ln(exp, rm) ==
    IF f_ge(exp, fin(1, 0)) THEN new(f_ln(exp, rm), fin(1, 0))
    ELSE new(f_ln(f_neg(exp), rm), PI)

\* A faulty variant of no_nan, which forgets the coefficients after the second.
no_nan_first_two(cf) == ~(is_nan(cf[1]) \/ is_nan(cf[2]))

\* The condition of the first assertion of quad and of cubic, over the sequence
\* of coefficients.
no_nan(cf) ==
    IF Len(cf) = 3 THEN ~(is_nan(cf[1]) \/ is_nan(cf[2]) \/ is_nan(cf[3]))
    ELSE ~(is_nan(cf[1]) \/ is_nan(cf[2]) \/ is_nan(cf[3]) \/ is_nan(cf[4]))

\* The condition of assert_ne!(a, 0.0).
leading_ne_zero(cf) == f_ne(cf[1], fin(1, 0))

\* A faulty variant of quad, which divides by a instead of 2a.
quad_whole_dom(a_, b_, c_) ==
    LET sqrt == c64_sqrt(f_sub(f_mul(b_, b_), f_mul(f_mul(lit(4, 1), a_), c_)))
        dom == f_div(lit(1, 1), a_)
    IN  << mul_c_t(add_t_c(f_neg(b_), sqrt), dom),
           mul_c_t(sub_t_c(f_neg(b_), sqrt), dom) >>

\* A faulty variant of quad, which adds the square root in both roots.
quad_adds_twice(a_, b_, c_) ==
    LET sqrt == c64_sqrt(f_sub(f_mul(b_, b_), f_mul(f_mul(lit(4, 1), a_), c_)))
        dom == f_div(lit(1, 2), a_)
    IN  << mul_c_t(add_t_c(f_neg(b_), sqrt), dom),
           mul_c_t(add_t_c(f_neg(b_), sqrt), dom) >>

\* The body of quad after its assertions.
quad(a_, b_, c_) ==
    LET sqrt == c64_sqrt(f_sub(f_mul(b_, b_), f_mul(f_mul(lit(4, 1), a_), c_)))
        dom == f_div(lit(1, 2), a_)
    IN  << mul_c_t(add_t_c(f_neg(b_), sqrt), dom),
           mul_c_t(sub_t_c(f_neg(b_), sqrt), dom) >>

\* The statements of cubic, one operator per `let`.
cubic_p(a_2, a_1) == f_sub(a_1, f_div(f_mul(a_2, a_2), lit(3, 1)))

cubic_q(a_2, a_1, a_0) ==
    f_sub(f_div(f_sub(f_mul(f_mul(lit(9, 1), a_1), a_2),
                      f_mul(f_mul(f_mul(lit(2, 1), a_2), a_2), a_2)),
                lit(27, 1)),
          a_0)

cubic_w_cb(p, q) ==
    mul_t_c(lit(1, 2),
            add_t_c(q, c64_sqrt(f_add(f_mul(q, q),
                                      f_mul(f_mul(f_mul(f_div(lit(4, 1), lit(27, 1)),
                                                        p), p), p)))))

cubic_z_0(w, po3, a_2o3) == sub_c_t(sub(w, div_t_c(po3, w)), a_2o3)

\* z^3 + a_2 z^2 + a_1 z + a_0 as the loop evaluates f and f_1.
cubic_f(z, a_2, a_1, a_0) ==
    LET z_sq == mul(z, z)
    IN  add_c_t(add(add(mul(z, z_sq), mul_t_c(a_2, z_sq)), mul_t_c(a_1, z)), a_0)

cubic_f_z(z_0, a_2, a_1) ==
    LET z_sq == mul(z_0, z_0)
    IN  add_c_t(add(mul_t_c(lit(3, 1), z_sq), mul_t_c(f_mul(lit(2, 1), a_2), z_0)),
                a_1)

cubic_z_1(z_0, f, f_z) == sub(z_0, div(f, f_z))

----------------------------------------------------------------------------
(* The free functions sqrt and ln of the modules c32 and c64 applied to x *)

C64Sqrt == Binary("c64_sqrt", c64_sqrt(x))
C64Ln == \E rm \in Modes : Method("c64_ln", rm, c64_ln(x, rm))

\* The scalars of both signs from the least to some above 1, with the special
\* values and the extremes.
FreeOperands ==
    Special \cup Extreme \cup { fin(sgn, m) : sgn \in { -1, 1 }, m \in 1..40 }
    \cup { lit(n, 1) : n \in { -16, -9, -4, -2, 2, 4, 9, 16 } }

InitFree ==
    /\ a = ZERO
    /\ b = ZERO
    /\ c = ZERO
    /\ x \in FreeOperands
    /\ lm = "ne"
    /\ InitRest

NextFree == C64Sqrt \/ C64Ln

SpecFree == InitFree /\ [][NextFree]_vars

----------------------------------------------------------------------------
(* quad and cubic, one step per assertion, per block and per loop iteration *)

\* A step of the callee that changes only its position.
Goto(here, there) ==
    /\ call = here
    /\ call' = there
    /\ UNCHANGED << callers, a, b, c, x, lm, res, a0, b0, coef, loc, roots, idx >>

\* assert!(!(a.is_nan() || b.is_nan() || c.is_nan())) of quad.
QuadAssertNan ==
    /\ Len(coef) = 3
    /\ Goto("init", IF no_nan(coef) THEN "quad_assert_ne" ELSE "panic")

\* assert_ne!(a, 0.0) of quad.
QuadAssertNe ==
    Goto("quad_assert_ne", IF leading_ne_zero(coef) THEN "quad_roots" ELSE "panic")

\* The body of quad and its return.
QuadRoots ==
    /\ call = "quad_roots"
    /\ call' = "done"
    /\ roots' = quad(coef[1], coef[2], coef[3])
    /\ UNCHANGED << callers, a, b, c, x, lm, res, a0, b0, coef, loc, idx >>

\* assert!(!(a.is_nan() || b.is_nan() || c.is_nan() || d.is_nan())) of cubic.
CubicAssertNan ==
    /\ Len(coef) = 4
    /\ Goto("init", IF no_nan(coef) THEN "cubic_assert_ne" ELSE "panic")

\* assert_ne!(a, 0.0) of cubic.
CubicAssertNe ==
    Goto("cubic_assert_ne", IF leading_ne_zero(coef) THEN "cubic_normalize" ELSE "panic")

\* The rest of cubic, one step per statement; the locals are kept in loc.
CubicStep(here, there, locals) ==
    /\ call = here
    /\ call' = there
    /\ loc' = locals
    /\ UNCHANGED << callers, a, b, c, x, lm, res, a0, b0, coef, roots, idx >>

\* let (a_2, a_1, a_0) = (b / a, c / a, d / a);
CubicNormalize ==
    CubicStep("cubic_normalize", "cubic_p",
              [loc EXCEPT !.a_2 = f_div(coef[2], coef[1]),
                          !.a_1 = f_div(coef[3], coef[1]),
                          !.a_0 = f_div(coef[4], coef[1])])

CubicP ==
    CubicStep("cubic_p", "cubic_q", [loc EXCEPT !.p = cubic_p(loc.a_2, loc.a_1)])

CubicQ ==
    CubicStep("cubic_q", "cubic_w_cb",
              [loc EXCEPT !.q = cubic_q(loc.a_2, loc.a_1, loc.a_0)])

CubicWCb ==
    CubicStep("cubic_w_cb", "cubic_w", [loc EXCEPT !.w_cb = cubic_w_cb(loc.p, loc.q)])

\* let w = w_cb.cbrt(), with the rounding rm of its library calls.
CubicW ==
    \E rm \in Modes :
        /\ call = "cubic_w"
        /\ call' = "cubic_roots"
        /\ lm' = rm
        /\ loc' = [loc EXCEPT !.w = cbrt(loc.w_cb, rm)]
        /\ UNCHANGED << callers, a, b, c, x, res, a0, b0, coef, roots, idx >>

\* let mut roots = [w, w * CBRT_1, w / CBRT_1]; po3; a_2o3; entry of the loop.
CubicRoots ==
    /\ call = "cubic_roots"
    /\ call' = "loop_z_0"
    /\ roots' = << loc.w, mul(loc.w, CBRT_1), div(loc.w, CBRT_1) >>
    /\ loc' = [loc EXCEPT !.po3 = f_div(loc.p, lit(3, 1)),
                          !.a_2o3 = f_div(loc.a_2, lit(3, 1))]
    /\ idx' = 1
    /\ UNCHANGED << callers, a, b, c, x, lm, res, a0, b0, coef >>

\* *z = value; continue, and the return after the third iteration.
StoreAndContinue(value) ==
    /\ roots' = [roots EXCEPT ![idx] = value]
    /\ idx' = idx + 1
    /\ call' = IF idx = 3 THEN "done" ELSE "loop_z_0"

LoopZ0 ==
    CubicStep("loop_z_0", "loop_f",
              [loc EXCEPT !.z_0 = cubic_z_0(roots[idx], loc.po3, loc.a_2o3)])

\* f, f_abs and the first exit; rm is the rounding of abs in this iteration.
LoopF ==
    \E rm \in Modes :
        /\ call = "loop_f"
        /\ lm' = rm
        /\ loc' = [loc EXCEPT !.f = cubic_f(loc.z_0, loc.a_2, loc.a_1, loc.a_0),
                              !.f_abs = abs(cubic_f(loc.z_0, loc.a_2, loc.a_1, loc.a_0), rm)]
        /\ IF f_eq(loc'.f_abs, fin(1, 0))
           THEN StoreAndContinue(loc.z_0)
           ELSE call' = "loop_f_z" /\ UNCHANGED << roots, idx >>
        /\ UNCHANGED << callers, a, b, c, x, res, a0, b0, coef >>

\* f_z and the second exit.
LoopFZ ==
    /\ call = "loop_f_z"
    /\ loc' = [loc EXCEPT !.f_z = cubic_f_z(loc.z_0, loc.a_2, loc.a_1)]
    /\ IF f_eq(abs(loc'.f_z, lm), fin(1, 0))
       THEN StoreAndContinue(loc.z_0)
       ELSE call' = "loop_z_1" /\ UNCHANGED << roots, idx >>
    /\ UNCHANGED << callers, a, b, c, x, lm, res, a0, b0, coef >>

LoopZ1 ==
    CubicStep("loop_z_1", "loop_f_1",
              [loc EXCEPT !.z_1 = cubic_z_1(loc.z_0, loc.f, loc.f_z)])

\* f_1 and the choice between z_0 and z_1.
LoopF1 ==
    /\ call = "loop_f_1"
    /\ loc' = [loc EXCEPT !.f_1 = cubic_f(loc.z_1, loc.a_2, loc.a_1, loc.a_0)]
    /\ StoreAndContinue(IF f_lt(loc.f_abs, abs(loc'.f_1, lm)) THEN loc.z_0 ELSE loc.z_1)
    /\ UNCHANGED << callers, a, b, c, x, lm, res, a0, b0, coef >>

\* The locals of cubic before they are assigned.
NoLocals ==
    [ a_2 |-> fin(1, 0), a_1 |-> fin(1, 0), a_0 |-> fin(1, 0), p |-> fin(1, 0),
      q |-> fin(1, 0), po3 |-> fin(1, 0), a_2o3 |-> fin(1, 0), f_abs |-> fin(1, 0),
      w_cb |-> ZERO, w |-> ZERO, z_0 |-> ZERO, f |-> ZERO, f_z |-> ZERO,
      z_1 |-> ZERO, f_1 |-> ZERO ]

QuadCoefs == { NAN, INFINITY, fin(1, 0), fin(-1, 0), lit(1, 1), lit(-1, 1),
               lit(2, 1), lit(-2, 1), lit(3, 4), lit(3, 1), lit(-4, 1),
               lit(13, 1) }

CubicCoefs == { NAN, INFINITY, fin(1, 0), fin(-1, 0), lit(1, 1), lit(-1, 1),
                lit(2, 1) }

InitSolve ==
    /\ coef \in [1..3 -> QuadCoefs] \cup [1..4 -> CubicCoefs]
    /\ a = ZERO /\ b = ZERO /\ c = ZERO
    /\ x = fin(1, 0)
    /\ lm = "ne"
    /\ call = "init"
    /\ res = ZERO /\ a0 = ZERO /\ b0 = ZERO
    /\ loc = NoLocals
    /\ roots = << >>
    /\ idx = 0
    /\ callers = << >>

NextSolve ==
    \/ QuadAssertNan \/ QuadAssertNe \/ QuadRoots
    \/ CubicAssertNan \/ CubicAssertNe
    \/ CubicNormalize \/ CubicP \/ CubicQ \/ CubicWCb \/ CubicW \/ CubicRoots
    \/ LoopZ0 \/ LoopF \/ LoopFZ \/ LoopZ1 \/ LoopF1

SpecSolve == InitSolve /\ [][NextSolve]_vars

----------------------------------------------------------------------------
(* C13: the imaginary unit *)

\* C13: the constant I is (0, 1), and I * I computed by Mul for Complex is
\* exactly (-1, +0).
C13_ISquared ==
    /\ I = new(fin(1, 0), lit(1, 1))
    /\ (call = "mul" /\ a = I /\ b = I) => res = new(lit(-1, 1), fin(1, 0))

\* I * I has been computed.
C13_Witness == call = "mul" /\ a = I /\ b = I /\ eq(res, from(lit(-1, 1)))

----------------------------------------------------------------------------
(* C14: the branch of Complex::sqrt *)

\* The real part is not negative and the imaginary part has the sign of z.i.
principal(z, w) == f_ge(w.r, fin(1, 0)) /\ ~is_nan(w.i) /\ w.i.s = z.i.s

\* The result on the real axis: (sqrt(z.r), 0) for z.r >= 0, and otherwise
\* (0, sqrt(-z.r)) with the sign of z.i.
on_real_axis(z, w) ==
    IF f_ge(z.r, fin(1, 0))
    THEN w.r = f_sqrt(z.r) /\ is_zero(w.i) /\ w.i.s = z.i.s
    ELSE /\ w = new(fin(1, 0), copysign(f_sqrt(f_neg(z.r)), z.i))
         /\ w = conj(Complex_sqrt(conj(z), lm))

\* C14 as claimed: for every z (without a NaN component), sqrt(z) has a
\* non-negative real part and an imaginary part with the sign of z.i; when
\* z.i == 0 it is (sqrt(z.r), 0) if z.r >= 0 and otherwise (0, sqrt(-z.r)) with
\* the sign of z.i.
C14_Original ==
    (call = "sqrt" /\ no_nan_c(a)) =>
        /\ principal(a, res)
        /\ f_eq(a.i, fin(1, 0)) => on_real_axis(a, res)

\* C14 as amended: the same, the first part for every z without a NaN component
\* whose imaginary part is finite and that is not (-inf, y) with y != 0; the
\* second part for every z with z.i == 0.
C14_PrincipalSqrt ==
    call = "sqrt" =>
        /\ (no_nan_c(a) /\ is_finite(a.i) /\ ~(a.r = NEG_INFINITY /\ ~is_zero(a.i))) =>
               principal(a, res)
        /\ f_eq(a.i, fin(1, 0)) => on_real_axis(a, res)

\* sqrt of (-1, -0) has been computed: (0, -1), the conjugate of sqrt of (-1, +0);
\* or sqrt of (-5, 5/16), in the second quadrant, with both parts positive.
C14_Witness ==
    /\ call = "sqrt"
    /\ \/ a = new(lit(-1, 1), fin(-1, 0)) /\ res = new(fin(1, 0), lit(-1, 1))
       \/ /\ a = new(lit(-5, 1), lit(5, 16))
          /\ f_lt(fin(1, 0), res.r) /\ f_lt(fin(1, 0), res.i)

----------------------------------------------------------------------------
(* C15: squaring the square root *)

\* A scalar of the magnitudes check_sqrt samples: zero, or normal and at most 5.
sampled(v) == is_finite(v) /\ (v.m = 0 \/ (MinNormal <= v.m /\ v.m <= 5 * One))

\* C15: for every finite z, here already for z with components of the magnitudes
\* the test samples (no overflow, no underflow), sqrt(z) * sqrt(z) is finite and
\* within 2 * abs(z) * EPSILON of z.
C15_Original ==
    (call = "sqrt" /\ sampled(a.r) /\ sampled(a.i)) =>
        /\ is_finite_c(mul(res, res))
        /\ within(mul(res, res), a, 2)

----------------------------------------------------------------------------
(* C16: cubing the cube root *)

cube(w) == mul(mul(w, w), w)

\* A z of the magnitudes check_cbrt samples: finite, its larger component
\* between 1/8 and 5.
cbrt_sampled(z) ==
    /\ is_finite_c(z)
    /\ z.r.m <= 5 * One /\ z.i.m <= 5 * One
    /\ (z.r.m >= One \div 8 \/ z.i.m >= One \div 8)

----------------------------------------------------------------------------
(* C17: ln, and ln of the zero value *)

\* The two components of ln(z) as the library functions give them.
ln_parts(z, w) ==
    /\ w.r = f_ln(hypot(z.r, z.i, lm), lm)
    /\ w.i = atan2(z.i, z.r, lm)

\* C17 as claimed: ln(z) is (ln(abs(z)), angle(z)), and at the zero value the
\* result is NaN (in a component at least).
C17_Original ==
    call = "ln" =>
        /\ ln_parts(a, res)
        /\ is_zero_c(a) => (is_nan(res.r) \/ is_nan(res.i))

\* C17 as amended: ln(z) is (ln(abs(z)), angle(z)), and at a zero value the
\* result has no NaN: its real part is -infinity and its imaginary part is the
\* angle of the zero, +-0 for z.r = +0 and +-pi for z.r = -0, with the sign of
\* z.i.
C17_LnAtZero ==
    call = "ln" =>
        /\ ln_parts(a, res)
        /\ is_zero_c(a) =>
               /\ res.r = NEG_INFINITY
               /\ is_finite(res.i) /\ res.i.s = a.i.s
               /\ a.r.s = 1 => is_zero(res.i)
               /\ a.r.s = -1 => (f_lt(lit(3, 1), f_abs(res.i)) /\
                                  f_ge(lit(13, 4), f_abs(res.i)))

\* ln of (+0, +0) has been computed: (-inf, +0); or ln of (-0, -0), whose
\* imaginary part is -pi.
C17_Witness ==
    /\ call = "ln"
    /\ \/ a = ZERO /\ res = new(NEG_INFINITY, fin(1, 0))
       \/ a = new(fin(-1, 0), fin(-1, 0)) /\ res = new(NEG_INFINITY, f_neg(PI))

----------------------------------------------------------------------------
(* C18: callers do not interfere *)

\* The value of a caller's variable after its operation, had it run alone.
alone(op, z, w) ==
    CASE op = "add_assign" -> add_assign(z, w)
      [] op = "sub_assign" -> sub_assign(z, w)
      [] op = "mul_assign" -> mul_assign(z, w)
      [] op = "div_assign" -> div_assign(z, w)
      [] OTHER -> z

\* The value returned to a caller, had it run alone.
returned(op, z, w) ==
    CASE op = "mul" -> mul(z, w)
      [] op = "div" -> div(z, w)
      [] OTHER -> ZERO

\* The value of a caller's variable between the two statements of a compound
\* assignment by field, had it run alone.
halfway(op, z, w) ==
    IF op = "add_assign" THEN [z EXCEPT !.r = f_add(z.r, w.r)]
    ELSE [z EXCEPT !.r = f_sub(z.r, w.r)]

----------------------------------------------------------------------------
(* C19: the cases of Display *)

\* The imaginary term of a mixed form: "i" for a coefficient of magnitude 1,
\* and otherwise the digits of the magnitude, "*i".
imag_term(v) == IF f_eq(f_abs(v), lit(1, 1)) THEN "i" ELSE mag_str(v) \o "*i"

\* C19: Display renders (r, i) as "{r}" when i == 0; otherwise, when r == 0, as
\* "i" for i == 1, "-i" for i == -1 and "{i}*i" for any other i; otherwise as
\* "{r} - {|i|}*i" when i < 0 and "{r} + {i}*i" when i > 0, without the
\* coefficient when |i| == 1.  The coefficient of a mixed form is the unsigned
\* magnitude of i.  The examples of the documentation print as documented.
C19_DisplayCases ==
    call = "fmt" =>
        /\ f_eq(a.i, fin(1, 0)) => res = display(a.r)
        /\ (f_ne(a.i, fin(1, 0)) /\ f_eq(a.r, fin(1, 0))) =>
               res = (IF f_eq(a.i, lit(1, 1)) THEN "i"
                      ELSE IF f_eq(a.i, lit(-1, 1)) THEN "-i"
                      ELSE display(a.i) \o "*i")
        /\ (f_ne(a.i, fin(1, 0)) /\ f_ne(a.r, fin(1, 0)) /\ f_lt(a.i, fin(1, 0))) =>
               res = display(a.r) \o " - " \o imag_term(a.i)
        /\ (f_ne(a.i, fin(1, 0)) /\ f_ne(a.r, fin(1, 0)) /\ f_lt(fin(1, 0), a.i)) =>
               res = display(a.r) \o " + " \o imag_term(a.i)
        /\ a = new(lit(3, 1), fin(1, 0)) => res = "3"
        /\ a = new(fin(1, 0), lit(1, 1)) => res = "i"
        /\ a = new(fin(1, 0), lit(-1, 1)) => res = "-i"
        /\ a = new(fin(1, 0), lit(4, 1)) => res = "4*i"
        /\ a = new(lit(-3, 1), lit(-1, 1)) => res = "-3 - i"
        /\ a = new(lit(3, 1), lit(-4, 1)) => res = "3 - 4*i"
        /\ a = new(lit(-3, 1), lit(1, 1)) => res = "-3 + i"
        /\ a = new(lit(3, 1), lit(4, 1)) => res = "3 + 4*i"

\* (3, -4) has been printed as "3 - 4*i", or (0.75, -21/16) as
\* "0.75 - 1.3125*i".
C19_Witness ==
    /\ call = "fmt"
    /\ \/ a = new(lit(3, 1), lit(-4, 1)) /\ res = "3 - 4*i"
       \/ a = new(lit(3, 4), lit(-21, 16)) /\ res = "0.75 - 1.3125*i"

----------------------------------------------------------------------------
(* C21: the reciprocal functions *)

\* The result of a method is recip of the result of the primary method.
recip_of(name, primary) == call = name => res = recip(primary)

\* The quotient of the denominator of tan by its numerator.
dom_over_num(tx, ty, sgn) ==
    div(new(lit(1, 1), f_mul(IF sgn = -1 THEN f_neg(tx) ELSE tx, ty)), new(tx, ty))

\* C21 as stated: each of sec, csc, cot, sech, csch and coth returns recip of
\* cos, sin, tan, cosh, sinh and tanh of the same argument, here for the finite
\* arguments only and with NaN matching NaN and -0 matching +0.
C21_Original ==
    is_finite_c(a) =>
        /\ recip_of("sec", cos(a, lm))
        /\ recip_of("csc", sin(a, lm))
        /\ call = "cot" => same_c(res, recip(tan(a, lm)))
        /\ recip_of("sech", cosh(a, lm))
        /\ recip_of("csch", sinh(a, lm))
        /\ call = "coth" => same_c(res, recip(tanh(a, lm)))

\* C21: sec, csc, sech and csch return recip of cos, sin, cosh and sinh of the
\* same argument; cot and coth return the quotient of the denominator of tan
\* (of tanh) by its numerator, (1, -tan x * tanh y) / (tan x, tanh y) and
\* (1, tanh x * tan y) / (tanh x, tan y), and recip is conj(w) / (w.r * w.r +
\* w.i * w.i).
C21_ReciprocalFunctions ==
    /\ recip_of("sec", cos(a, lm))
    /\ recip_of("csc", sin(a, lm))
    /\ recip_of("sech", cosh(a, lm))
    /\ recip_of("csch", sinh(a, lm))
    /\ call = "cot" => res = dom_over_num(f_tan(a.r, lm), f_tanh(a.i, lm), -1)
    /\ call = "coth" => res = dom_over_num(f_tanh(a.r, lm), f_tan(a.i, lm), 1)
    /\ call = "recip" =>
            res = div_c_t(conj(a), f_add(f_mul(a.r, a.r), f_mul(a.i, a.i)))

\* cot has been taken of a finite argument where it is finite and differs from
\* recip of tan.
C21_Witness ==
    /\ call = "cot"
    /\ is_finite_c(a)
    /\ is_finite_c(res)
    /\ is_finite_c(recip(tan(a, lm)))
    /\ ~same_c(res, recip(tan(a, lm)))

----------------------------------------------------------------------------
(* C2: the precondition of quad and cubic *)

\* The coefficient sets the documentation calls invalid.
invalid(cf) == (\E j \in DOMAIN cf : is_nan(cf[j])) \/ f_eq(cf[1], fin(1, 0))

Asserting == { "init", "quad_assert_ne", "cubic_assert_ne" }
InLoop == { "loop_z_0", "loop_f", "loop_f_z", "loop_z_1", "loop_f_1" }
AfterAsserts ==
    { "quad_roots", "cubic_normalize", "cubic_p", "cubic_q", "cubic_w_cb",
      "cubic_w", "cubic_roots", "done" } \cup InLoop

\* C2: quad and cubic panic exactly for the coefficient sets with a == 0 or a
\* NaN: a panic happens only for such a set and with no root computed, the
\* assertions run before any root is computed, and the code after the
\* assertions runs only for the other sets; it has no failing step (the loop of
\* cubic stays within its array) and returns one root per degree.
C2_PanicIffInvalid ==
    /\ call = "panic" => invalid(coef) /\ roots = << >>
    /\ call \in Asserting => roots = << >>
    /\ call \in AfterAsserts => ~invalid(coef)
    /\ call \in InLoop => idx \in 1..3 /\ Len(roots) = 3
    /\ call = "done" => Len(roots) = Len(coef) - 1
    /\ call \in { "panic" } \cup Asserting \cup AfterAsserts

\* Each way to panic and each way to return has happened: a NaN third
\* coefficient, a leading -0.0, and a return with an infinite coefficient.
C2_Witness ==
    \/ /\ call = "panic" /\ Len(coef) = 3 /\ is_nan(coef[3]) /\ ~is_nan(coef[1])
    \/ /\ call = "panic" /\ Len(coef) = 4 /\ coef[1] = fin(-1, 0) /\ no_nan(coef)
    \/ /\ call = "done" /\ Len(coef) = 4 /\ coef[2] = INFINITY

----------------------------------------------------------------------------
(* C1: the roots of cubic *)

finite_coef(cf) == \A j \in DOMAIN cf : is_finite(cf[j])

\* C1, the part of it that says no returned root has a NaN component: when
\* cubic returns for finite coefficients with a != 0, including those for which
\* the Cardano value w is zero, each component of each of the three roots is a
\* number.
C1_Original ==
    (call = "done" /\ Len(coef) = 4 /\ finite_coef(coef)) =>
        \A j \in 1..3 : no_nan_c(roots[j])

----------------------------------------------------------------------------
(* C3: the roots of quad *)

\* The exact value of a r^2 + b r + c at a finite root r, real and imaginary
\* part, in units of 2^-3F.
residual_r(cf, r) ==
    val(cf[1]) * (val(r.r) * val(r.r) - val(r.i) * val(r.i))
        + val(cf[2]) * val(r.r) * One + val(cf[3]) * One * One

residual_i(cf, r) ==
    val(cf[1]) * 2 * val(r.r) * val(r.i) + val(cf[2]) * val(r.i) * One

\* EPSILON in units of 2^-3F.
eps3 == (One * One * One) \div 2^(P - 1)

\* 3 * EPSILON * (b^2 + 4 |a c|) / |a| in units of 2^-3F, rounded down.
quad_tol(cf) ==
    ((3 * (cf[2].m * cf[2].m + 4 * cf[1].m * cf[3].m) * One)
        \div (cf[1].m * 2^(P - 1))) * One

\* No scalar operation of quad overflows or underflows.
quad_in_range(cf) ==
    LET a_ == cf[1]
        b_ == cf[2]
        c_ == cf[3]
        sqrt == c64_sqrt(f_sub(f_mul(b_, b_), f_mul(f_mul(lit(4, 1), a_), c_)))
        dom == f_div(lit(1, 2), a_)
    IN  /\ finite_coef(cf)
        /\ mul_ok(b_, b_) /\ mul_ok(lit(4, 1), a_) /\ mul_ok(f_mul(lit(4, 1), a_), c_)
        /\ div_ok(lit(1, 2), a_)
        /\ is_finite_c(sqrt)
        /\ mul_ok(f_add(f_neg(b_), sqrt.r), dom)
        /\ mul_ok(f_sub(f_neg(b_), sqrt.r), dom)
        /\ mul_ok(sqrt.i, dom)

\* C3 as claimed: for every finite coefficient triple with a != 0, both roots
\* returned by quad are finite and satisfy a r^2 + b r + c = 0 within machine
\* epsilon (each part of the exact residual is at most EPSILON in magnitude).
C3_Original ==
    (call = "done" /\ Len(coef) = 3 /\ finite_coef(coef)) =>
        \A j \in 1..2 :
            /\ is_finite_c(roots[j])
            /\ iabs(residual_r(coef, roots[j])) <= eps3
            /\ iabs(residual_i(coef, roots[j])) <= eps3

\* C3 as amended: for every finite coefficient triple with a != 0 for which no
\* scalar operation of quad overflows or underflows, both roots
\* (-b +- sqrtD) / (2a) are finite and each part of the exact residual
\* a r^2 + b r + c is at most 3 * EPSILON * (b^2 + 4 |a c|) / |a| in magnitude;
\* for the coefficients [1, -4, 13], where no operation rounds, it is zero.
C3_QuadResidual ==
    (call = "done" /\ Len(coef) = 3) =>
        /\ quad_in_range(coef) =>
               \A j \in 1..2 :
                   /\ is_finite_c(roots[j])
                   /\ iabs(residual_r(coef, roots[j])) <= quad_tol(coef)
                   /\ iabs(residual_i(coef, roots[j])) <= quad_tol(coef)
        /\ coef = << lit(1, 1), lit(-4, 1), lit(13, 1) >> =>
               /\ roots = << new(lit(2, 1), lit(3, 1)), new(lit(2, 1), lit(-3, 1)) >>
               /\ \A j \in 1..2 : /\ residual_r(coef, roots[j]) = 0
                                  /\ residual_i(coef, roots[j]) = 0

\* quad has returned rounded roots within the bound: those of 2 x^2 + 3 x - 1,
\* whose residual is not zero.
C3_Witness ==
    /\ call = "done"
    /\ coef = << lit(2, 1), lit(3, 1), lit(-1, 1) >>
    /\ quad_in_range(coef)
    /\ residual_r(coef, roots[1]) # 0
    /\ iabs(residual_r(coef, roots[1])) <= quad_tol(coef)

----------------------------------------------------------------------------
(* C20: the choice between a candidate and its Newton step *)

\* An iteration of the loop of cubic has just stored its root.
Stored == call \in { "loop_z_0", "done" } /\ idx >= 2

\* |f(z)| as the loop computes it for its candidates.
residual_abs(z) == abs(cubic_f(z, loc.a_2, loc.a_1, loc.a_0), lm)

\* C20: when an iteration has stored its root, the root is z_0 itself if
\* f(z_0) == 0 or f'(z_0) == 0, and otherwise it is z_0 or z_1 and its residual
\* |f(root)| is at most the residual |f(z_0)| of the unpolished candidate.
C20_Original ==
    Stored =>
        IF f_eq(loc.f_abs, fin(1, 0)) \/ f_eq(abs(loc.f_z, lm), fin(1, 0))
        THEN roots[idx - 1] = loc.z_0
        ELSE /\ roots[idx - 1] \in { loc.z_0, loc.z_1 }
             /\ f_ge(loc.f_abs, residual_abs(roots[idx - 1]))

----------------------------------------------------------------------------
(* C22: real and conjugate roots of quad *)

\* b * b - 4.0 * a * c as quad computes it.
discriminant(cf) == f_sub(f_mul(cf[2], cf[2]), f_mul(f_mul(lit(4, 1), cf[1]), cf[3]))

\* The roots are real if the discriminant is >= 0, and conjugates of each other
\* if it is negative.
real_or_conjugate(cf, rts) ==
    /\ f_ge(discriminant(cf), fin(1, 0)) =>
            is_zero(rts[1].i) /\ is_zero(rts[2].i)
    /\ f_lt(discriminant(cf), fin(1, 0)) =>
            /\ f_eq(rts[1].r, rts[2].r)
            /\ ~is_nan(rts[1].i)
            /\ rts[2].i = f_neg(rts[1].i)

\* C22 as stated: when quad returns, for every coefficient triple without NaN
\* and with a != 0, the two roots are real if the discriminant is >= 0 and
\* conjugates of each other if it is negative.
C22_Original ==
    (call = "done" /\ Len(coef) = 3) => real_or_conjugate(coef, roots)

\* C22: when quad returns for a coefficient triple without NaN, with a != 0 and
\* with 0.5 / a finite and not zero (a is not infinite, and not so small that
\* 0.5 / a overflows), the two roots are real (both imaginary parts are zero) if
\* the discriminant b * b - 4.0 * a * c as computed is >= 0, and conjugates of
\* each other (equal real parts, imaginary parts the negation of each other)
\* if it is negative.
C22_RealOrConjugate ==
    (call = "done" /\ Len(coef) = 3) =>
        LET dom == f_div(lit(1, 2), coef[1])
        IN  (is_finite(dom) /\ ~is_zero(dom)) => real_or_conjugate(coef, roots)

\* quad has returned two distinct finite conjugate roots for a negative
\* discriminant.
C22_Witness ==
    /\ call = "done"
    /\ Len(coef) = 3
    /\ f_lt(discriminant(coef), fin(1, 0))
    /\ is_finite_c(roots[1])
    /\ ~is_zero(roots[1].i)
    /\ roots[2] = conj(roots[1])

----------------------------------------------------------------------------
(* C23: the free functions sqrt and ln on the real axis *)

\* C23: for every scalar x that is not NaN, the free function sqrt(x) returns
\* what Complex::new(x, 0.0).sqrt() returns, which is (sqrt(x), 0) for x >= 0
\* and (0, sqrt(-x)) with an imaginary part of positive sign for x < 0, and the
\* free function ln(x) returns (ln(x), 0) for x >= 0 and (ln(-x), PI) for x < 0.
C23_FreeOnRealAxis ==
    ~is_nan(x) =>
        /\ call = "c64_sqrt" =>
                /\ \A rm \in Modes : res = Complex_sqrt(new(x, fin(1, 0)), rm)
                /\ f_ge(x, fin(1, 0)) => res = new(f_sqrt(x), fin(1, 0))
                /\ f_lt(x, fin(1, 0)) =>
                        /\ res = new(fin(1, 0), f_sqrt(f_neg(x)))
                        /\ ~is_nan(res.i) /\ ~is_zero(res.i) /\ res.i.s = 1
        /\ call = "c64_ln" =>
                /\ f_ge(x, fin(1, 0)) => res = new(f_ln(x, lm), fin(1, 0))
                /\ f_lt(x, fin(1, 0)) => res = new(f_ln(f_neg(x), lm), PI)

\* The free function sqrt has been applied to a negative finite scalar and has
\* returned an imaginary number.
C23_Witness ==
    /\ call = "c64_sqrt"
    /\ is_finite(x)
    /\ f_lt(x, fin(1, 0))
    /\ res.r = fin(1, 0)
    /\ f_lt(fin(1, 0), res.i)
    /\ res = Complex_sqrt(new(x, fin(1, 0)), lm)

====
